---- MODULE Spec2Model ----
(***************************************************************************)
(* OracleX relay: the in-memory stores of the relay (price store, analysis *)
(* cache, approval workflow, command queue, receipt log) and the request   *)
(* handlers that act on them, revision by revision.                        *)
(*                                                                         *)
(* JSON values are modelled by their literal text: "undefined" is a key    *)
(* that the payload does not carry, "null" is a JSON null, numbers and     *)
(* strings are their literals.  Times are integers (milliseconds).         *)
(***************************************************************************)
EXTENDS Integers, Sequences, FiniteSets, TLC

VARIABLES
  variant,           \* which revision of the relay is deployed
  clock,             \* index of the current instant (Date.now() = Instant(clock))
  market_data,       \* marketState.market_data : array of price records
  timestamp,         \* marketState.timestamp   : <<>> is null, <<t>> is t
  dashboardCache,    \* Map symbol -> analysis record
  commandQueue,      \* array of queued commands
  pendingApprovals,  \* Map cmd_id -> tracked signal
  receipts,          \* array of receipts
  activeSymbols,     \* enhanced relay: symbols of successful receipts
  symbols,           \* forwarding relay: marketState.symbols, symbol -> record
  inflight,          \* forwarding relay: handlers suspended on the forward
  request,           \* the route of the request being answered
  response,          \* the answer to it
  pushed,            \* history: the commands pushed to commandQueue, since the last flush
  delivered          \* history: the commands returned by GET /last-signal, since the last flush

vars == <<variant, clock, market_data, timestamp, dashboardCache, commandQueue,
          pendingApprovals, receipts, activeSymbols, symbols, inflight,
          request, response, pushed, delivered>>

marketVars == <<market_data, timestamp, dashboardCache>>
signalVars == <<commandQueue, pendingApprovals, receipts, activeSymbols,
                pushed, delivered>>
forwardVars == <<symbols, inflight>>

-----------------------------------------------------------------------------
(* Bounds of the model *)

MaxClock == 1
MaxPending == 2
MaxPushed == 2
MaxReceipts == 1
MaxInflight == 1
MaxLog == 2

-----------------------------------------------------------------------------
(* JavaScript values *)

UNDEFINED == "undefined"
NULL == "null"

\* the falsy values of JavaScript among the modelled literals
Falsy == {UNDEFINED, NULL, "0", "", "false"}

Truthy(v) == v \notin Falsy

\* a || b
Or(a, b) == IF Truthy(a) THEN a ELSE b

\* a ?? b
Nullish(a, b) == IF a \in {UNDEFINED, NULL} THEN b ELSE a

\* typeof v === 'number' for the literals of the model
JsNumbers == {"0", "0.1", "0.2", "0.5", "1890", "1920", "1950", "1.05", "1.08", "1.09"}

IsNumber(v) == v \in JsNumbers

\* the instants at which the clock is read, in milliseconds
Instant(i) ==
  CASE i = 0 -> 1000
    [] OTHER -> 31000 + i * 15000

DateNow == Instant(clock)

nowSec == DateNow \div 1000

Tick ==
  /\ clock < MaxClock
  /\ clock' = clock + 1
  /\ UNCHANGED <<variant, marketVars, signalVars, forwardVars, request, response>>

-----------------------------------------------------------------------------
(* Price records (SymbolSnapshot), partial and stored *)

PriceFields == {"symbol", "price", "ask", "indicators", "ohlcv_micro", "ohlcv_macro"}

PriceRecord(sym, price, ask, ind, micro, macro) ==
  [symbol |-> sym, price |-> price, ask |-> ask, indicators |-> ind,
   ohlcv_micro |-> micro, ohlcv_macro |-> macro]

\* the partial records the producer sends
GoldFull == PriceRecord("XAUUSD", "1920", "1950", "RSI_GREEN", "M5_BARS", "H1_BARS")
GoldTick == PriceRecord("XAUUSD", "1890", UNDEFINED, UNDEFINED, UNDEFINED, UNDEFINED)
GoldNulls == PriceRecord("XAUUSD", NULL, UNDEFINED, NULL, UNDEFINED, UNDEFINED)
EuroFull == PriceRecord("EURUSD", "1.08", "1.09", "MACD_RED", UNDEFINED, UNDEFINED)
NoSymbolTick == PriceRecord(UNDEFINED, "0.5", UNDEFINED, UNDEFINED, UNDEFINED, UNDEFINED)

\* request bodies of the batch endpoints: market_data is an array, or is not
BatchBody(items) == [isArray |-> TRUE, market_data |-> items]
NotAnArray == [isArray |-> FALSE, market_data |-> <<>>]

\* a request without a body
NoBody == [empty |-> TRUE]

\* no response has been sent for the request
NoResponse == [status |-> 0, body |-> NoBody]

PriceBatches ==
  { <<>>, <<GoldFull>>, <<GoldTick>>, <<GoldNulls>>, <<EuroFull>>, <<NoSymbolTick>>,
    <<GoldFull, EuroFull>>, <<GoldFull, GoldTick>>, <<EuroFull, NoSymbolTick>> }

PriceBodies == {BatchBody(b) : b \in PriceBatches} \cup {NotAnArray}

\* a JSON null as an element of market_data
NullElement == [isNull |-> TRUE]
IsNull(e) == e = NullElement

\* a batch whose second element is null
NullInPriceBatch == BatchBody(<<GoldFull, NullElement>>)

\* the message of the TypeError raised by reading .symbol of null
NullSymbolError == "Cannot read properties of null (reading 'symbol')"

\* the message of the TypeError raised by reading .indicators of null
NullIndicatorsError == "Cannot read properties of null (reading 'indicators')"

\* Array.prototype.findIndex(s => s.symbol === sym): 0 when there is none
FindIndex(arr, sym) ==
  LET hits == {i \in 1..Len(arr) : ~IsNull(arr[i]) /\ arr[i].symbol = sym}
  IN IF hits = {} THEN 0 ELSE CHOOSE i \in hits : \A j \in hits : i <= j

\* { ...old, ...new }: every key the new object carries overwrites
Spread(old, new) ==
  [f \in DOMAIN old |-> IF new[f] # UNDEFINED THEN new[f] ELSE old[f]]

-----------------------------------------------------------------------------
(* v3 dashboard relay: price store (SymbolStore) *)

\* the object literal that replaces an existing record
MergeSymbol(old, new) ==
  [Spread(old, new) EXCEPT
     !.indicators = Or(new.indicators, old.indicators),
     !.ohlcv_micro = Or(new.ohlcv_micro, old.ohlcv_micro),
     !.ohlcv_macro = Or(new.ohlcv_macro, old.ohlcv_macro)]

\* an upsert that inserts without looking the symbol up
UpsertSymbolAlwaysPushes(arr, new) == Append(arr, new)

\* the body of market_data.forEach for one element
UpsertSymbol(arr, new) ==
  LET existingIndex == IF arr = <<>> THEN 0 ELSE FindIndex(arr, new.symbol)
  IN IF existingIndex > 0
       THEN [arr EXCEPT ![existingIndex] = MergeSymbol(arr[existingIndex], new)]
       ELSE Append(arr, new)

\* the findIndex callback s => s.symbol === newSymbol.symbol throws a TypeError
\* when it runs with a null s or a null newSymbol, before any match
UpsertThrows(arr, new) ==
  \E i \in 1..Len(arr) :
    /\ IsNull(arr[i]) \/ IsNull(new)
    /\ \A j \in 1..(i - 1) :
         ~IsNull(arr[j]) /\ ~IsNull(new) /\ arr[j].symbol # new.symbol

\* market_data.forEach: the elements are applied in order until one throws
RECURSIVE ApplyBatch(_, _)
ApplyBatch(arr, batch) ==
  IF batch = <<>> THEN [store |-> arr, threw |-> FALSE]
  ELSE IF UpsertThrows(arr, Head(batch)) THEN [store |-> arr, threw |-> TRUE]
  ELSE ApplyBatch(UpsertSymbol(arr, Head(batch)), Tail(batch))

InvalidFormat == [status |-> 400, body |-> [error |-> "Invalid market_data format"]]

UpdateMarketState(body) ==
  /\ variant = "v3_dashboard"
  /\ request' = "POST /update-market-state"
  /\ IF ~body.isArray
       THEN /\ response' = InvalidFormat
            /\ UNCHANGED marketVars
       ELSE LET applied == ApplyBatch(market_data, body.market_data)
                merged == applied.store
            IN /\ market_data' = merged
               /\ IF applied.threw
                    THEN /\ response' = [status |-> 500, body |-> [error |-> NullSymbolError]]
                         /\ UNCHANGED timestamp
                    ELSE /\ timestamp' = <<DateNow>>
                         /\ response' = [status |-> 200,
                                         body |-> [success |-> TRUE,
                                                   symbols_merged |-> Len(merged),
                                                   dashboard_ready |-> Len(merged) > 0]]
               /\ UNCHANGED dashboardCache
  /\ UNCHANGED <<variant, clock, signalVars, forwardVars>>

\* legacy endpoint: the whole marketState object is replaced
DataUpdate(body) ==
  /\ variant = "v3_dashboard"
  /\ request' = "POST /data-update"
  /\ IF body.isArray
       THEN /\ market_data' = body.market_data
            /\ timestamp' = <<DateNow>>
       ELSE UNCHANGED <<market_data, timestamp>>
  /\ response' = [status |-> 200, body |-> [ok |-> TRUE]]
  /\ UNCHANGED <<variant, clock, dashboardCache, signalVars, forwardVars>>

-----------------------------------------------------------------------------
(* v3 dashboard relay: analysis cache (AnalysisCache) *)

AnalysisFields == {"bias", "confidence", "insight", "indicators", "market_regime",
                   "confluence_breakdown", "context_history", "state_statistics",
                   "current_session"}

AnalysisRecord(sym, bias, conf, insight, ind, regime, breakdown, history, stats, session) ==
  [symbol |-> sym, bias |-> bias, confidence |-> conf, insight |-> insight,
   indicators |-> ind, market_regime |-> regime, confluence_breakdown |-> breakdown,
   context_history |-> history, state_statistics |-> stats, current_session |-> session]

\* the records the analysis engine sends
GoldAnalysis ==
  AnalysisRecord("XAUUSD", "BULLISH", "80", "Strong trend", "7_GREEN", "REGIME_UP",
                 "BREAKDOWN_70", "HISTORY_60MIN", "STATS_70_20_10", "London")
GoldPartial ==
  AnalysisRecord("XAUUSD", UNDEFINED, "55", UNDEFINED, UNDEFINED, UNDEFINED,
                 UNDEFINED, UNDEFINED, UNDEFINED, "NewYork")
EuroAnalysis ==
  AnalysisRecord("EURUSD", "BEARISH", "0", NULL, UNDEFINED, "REGIME_DOWN",
                 UNDEFINED, UNDEFINED, UNDEFINED, UNDEFINED)
NoSymbolAnalysis ==
  AnalysisRecord(UNDEFINED, "BULLISH", "80", "No key", UNDEFINED, UNDEFINED,
                 UNDEFINED, UNDEFINED, UNDEFINED, UNDEFINED)

AnalysisBatches ==
  { <<>>, <<GoldAnalysis>>, <<GoldPartial>>, <<EuroAnalysis>>, <<NoSymbolAnalysis>>,
    <<GoldAnalysis, EuroAnalysis>>, <<NoSymbolAnalysis, GoldPartial>> }

AnalysisBodies == {BatchBody(b) : b \in AnalysisBatches} \cup {NotAnArray}

\* a batch whose second element is null
NullInAnalysisBatch == BatchBody(<<GoldAnalysis, NullElement>>)

\* the object stored by dashboardCache.set
CacheEntry(symbolData, t) ==
  [f \in AnalysisFields \cup {"last_update"} |->
     IF f = "last_update" THEN t ELSE symbolData[f]]

\* the body of market_data.forEach for one element: Map.set under a truthy symbol
CacheSymbol(cache, symbolData, t) ==
  IF Truthy(symbolData.symbol)
    THEN [s \in DOMAIN cache \cup {symbolData.symbol} |->
            IF s = symbolData.symbol THEN CacheEntry(symbolData, t) ELSE cache[s]]
    ELSE cache

\* market_data.forEach: the elements are cached in order until symbolData.symbol
\* is read of a null element, which throws a TypeError
RECURSIVE CacheBatch(_, _, _)
CacheBatch(cache, batch, t) ==
  IF batch = <<>> THEN [cache |-> cache, threw |-> FALSE]
  ELSE IF IsNull(Head(batch)) THEN [cache |-> cache, threw |-> TRUE]
  ELSE CacheBatch(CacheSymbol(cache, Head(batch), t), Tail(batch), t)

MarketAnalysis(body) ==
  /\ variant = "v3_dashboard"
  /\ request' = "POST /market-analysis"
  /\ IF ~body.isArray
       THEN /\ response' = InvalidFormat
            /\ UNCHANGED marketVars
       ELSE LET cached == CacheBatch(dashboardCache, body.market_data, DateNow)
            IN /\ dashboardCache' = cached.cache
               /\ IF cached.threw
                    THEN /\ response' = [status |-> 500, body |-> [error |-> NullSymbolError]]
                         /\ UNCHANGED timestamp
                    ELSE /\ timestamp' = IF timestamp = <<>> THEN <<DateNow>> ELSE timestamp
                         /\ response' = [status |-> 200,
                                         body |-> [success |-> TRUE,
                                                   symbols_cached |-> Len(body.market_data)]]
               /\ UNCHANGED market_data
  /\ UNCHANGED <<variant, clock, signalVars, forwardVars>>

-----------------------------------------------------------------------------
(* v2 relay (updated): one store of price records that analysis is merged into *)

V2Fields == PriceFields \cup AnalysisFields

\* an object of the store or of a request, over every field the relay reads
Widen(rec) ==
  IF IsNull(rec) THEN rec
  ELSE [f \in V2Fields |-> IF f \in DOMAIN rec THEN rec[f] ELSE UNDEFINED]

\* { ...old, ...newSymbol, indicators: newSymbol.indicators || old.indicators }
V2MergeSymbol(old, new) ==
  [Spread(old, new) EXCEPT !.indicators = Or(new.indicators, old.indicators)]

V2UpsertSymbol(arr, new) ==
  LET existingIndex == IF arr = <<>> THEN 0 ELSE FindIndex(arr, new.symbol)
  IN IF existingIndex > 0
       THEN [arr EXCEPT ![existingIndex] = V2MergeSymbol(arr[existingIndex], new)]
       ELSE Append(arr, new)

RECURSIVE V2ApplyBatch(_, _)
V2ApplyBatch(arr, batch) ==
  IF batch = <<>> THEN [store |-> arr, threw |-> FALSE]
  ELSE IF UpsertThrows(arr, Head(batch)) THEN [store |-> arr, threw |-> TRUE]
  ELSE V2ApplyBatch(V2UpsertSymbol(arr, Widen(Head(batch))), Tail(batch))

\* the log line after the loop reads firstSymbol.indicators of market_data[0]
V2LogThrows(arr) == arr # <<>> /\ IsNull(arr[1])

V2UpdateMarketState(body) ==
  /\ variant = "v2_updated"
  /\ request' = "POST /update-market-state"
  /\ IF ~body.isArray
       THEN /\ response' = InvalidFormat
            /\ UNCHANGED marketVars
       ELSE LET applied == V2ApplyBatch(market_data, body.market_data)
                merged == applied.store
            IN /\ market_data' = merged
               /\ IF applied.threw
                    THEN /\ response' = [status |-> 500, body |-> [error |-> NullSymbolError]]
                         /\ UNCHANGED timestamp
                    ELSE /\ timestamp' = <<DateNow>>
                         /\ response' =
                              IF V2LogThrows(merged)
                                THEN [status |-> 500, body |-> [error |-> NullIndicatorsError]]
                                ELSE [status |-> 200,
                                      body |-> [success |-> TRUE,
                                                symbols_merged |-> Len(merged)]]
               /\ UNCHANGED dashboardCache
  /\ UNCHANGED <<variant, clock, signalVars, forwardVars>>

\* existing.f = sym.f || existing.f, and sym.confidence ?? existing.confidence
V2MergeAnalysis(existing, sym) ==
  [f \in V2Fields |->
     CASE f = "confidence" -> Nullish(sym[f], existing[f])
       [] f \in AnalysisFields -> Or(sym[f], existing[f])
       [] OTHER -> existing[f]]

\* the body of market_data.forEach for one element: find, then merge in place
V2AnalyseSymbol(arr, sym) ==
  LET existing == IF arr = <<>> THEN 0 ELSE FindIndex(arr, sym.symbol)
  IN IF existing > 0
       THEN [arr EXCEPT ![existing] = V2MergeAnalysis(arr[existing], sym)]
       ELSE arr

RECURSIVE V2AnalyseBatch(_, _)
V2AnalyseBatch(arr, batch) ==
  IF batch = <<>> THEN [store |-> arr, threw |-> FALSE]
  ELSE IF UpsertThrows(arr, Head(batch)) THEN [store |-> arr, threw |-> TRUE]
  ELSE V2AnalyseBatch(V2AnalyseSymbol(arr, Widen(Head(batch))), Tail(batch))

V2MarketAnalysis(body) ==
  /\ variant = "v2_updated"
  /\ request' = "POST /market-analysis"
  /\ IF body.isArray
       THEN LET analysed == V2AnalyseBatch(market_data, body.market_data)
            IN /\ market_data' = analysed.store
               /\ IF analysed.threw
                    THEN /\ response' = [status |-> 500, body |-> [error |-> NullSymbolError]]
                         /\ UNCHANGED timestamp
                    ELSE /\ timestamp' = <<DateNow>>
                         /\ response' =
                              IF V2LogThrows(body.market_data)
                                THEN [status |-> 500, body |-> [error |-> NullIndicatorsError]]
                                ELSE [status |-> 200, body |-> [ok |-> TRUE]]
       ELSE /\ response' = [status |-> 200, body |-> [ok |-> TRUE]]
            /\ UNCHANGED <<market_data, timestamp>>
  /\ UNCHANGED <<variant, clock, dashboardCache, signalVars, forwardVars>>

\* { ...marketState, data_age_sec: dataAge }
V2GetMarketState ==
  /\ variant = "v2_updated"
  /\ request' = "GET /get-market-state"
  /\ response' = [status |-> 200,
                  body |-> [market_data |-> market_data,
                            timestamp |-> timestamp,
                            data_age_sec |-> IF timestamp # <<>>
                                               THEN (DateNow - timestamp[1]) \div 1000
                                               ELSE 0]]
  /\ UNCHANGED <<variant, clock, marketVars, signalVars, forwardVars>>

-----------------------------------------------------------------------------
(* v3 dashboard relay: merged view (StateMerger) *)

\* pythonData?.f : undefined when there is no cache entry
Python(cache, sym, f) == IF sym \in DOMAIN cache THEN cache[sym][f] ELSE UNDEFINED

\* a merge that does not look at the analysis cache
mergeSymbolDataDefaultsOnly(mql5Data, cache) ==
  [symbol |-> mql5Data.symbol,
   price |-> Or(mql5Data.price, Or(mql5Data.ask, "0")),
   ask |-> Or(mql5Data.ask, "0"),
   bias |-> "NEUTRAL",
   confidence |-> "0",
   insight |-> "Analyzing...",
   indicators |-> "{}",
   market_regime |-> "REGIME_Unknown_Normal_Choppy",
   confluence_breakdown |-> "BREAKDOWN_40_30_20_10",
   context_history |-> "[]",
   state_statistics |-> "STATS_50_25_25",
   current_session |-> "Unknown",
   ohlcv_micro |-> Or(mql5Data.ohlcv_micro, "[]"),
   ohlcv_macro |-> Or(mql5Data.ohlcv_macro, "[]"),
   last_update_python |-> <<>>,
   data_source |-> "merged"]

mergeSymbolData(mql5Data, cache) ==
  LET py(f) == Python(cache, mql5Data.symbol, f)
  IN [symbol |-> mql5Data.symbol,
      price |-> Or(mql5Data.price, Or(mql5Data.ask, "0")),
      ask |-> Or(mql5Data.ask, "0"),
      bias |-> Or(py("bias"), "NEUTRAL"),
      confidence |-> Or(py("confidence"), "0"),
      insight |-> Or(py("insight"), "Analyzing..."),
      indicators |-> Or(py("indicators"), "{}"),
      market_regime |-> Or(py("market_regime"), "REGIME_Unknown_Normal_Choppy"),
      confluence_breakdown |-> Or(py("confluence_breakdown"), "BREAKDOWN_40_30_20_10"),
      context_history |-> Or(py("context_history"), "[]"),
      state_statistics |-> Or(py("state_statistics"), "STATS_50_25_25"),
      current_session |-> Or(py("current_session"), "Unknown"),
      ohlcv_micro |-> Or(mql5Data.ohlcv_micro, "[]"),
      ohlcv_macro |-> Or(mql5Data.ohlcv_macro, "[]"),
      last_update_python |-> IF mql5Data.symbol \in DOMAIN cache
                               THEN <<cache[mql5Data.symbol].last_update>>
                               ELSE <<>>,
      data_source |-> "merged"]

\* new Date().toISOString(): the text of the instant, written by its milliseconds
ToISOString(t) == "ISO_" \o ToString(t)

getCompleteMarketState ==
  LET completeData == [i \in 1..Len(market_data) |->
                         mergeSymbolData(market_data[i], dashboardCache)]
  IN [market_data |-> completeData,
      timestamp |-> timestamp,
      data_age_sec |-> IF timestamp # <<>>
                         THEN (DateNow - timestamp[1]) \div 1000
                         ELSE 0,
      symbols_count |-> Len(completeData),
      last_update |-> ToISOString(DateNow)]

\* a read that stamps the store with the time of the read
GetMarketStateStamping ==
  /\ variant = "v3_dashboard"
  /\ request' = "GET /get-market-state"
  /\ response' = [status |-> 200, body |-> getCompleteMarketState]
  /\ timestamp' = <<DateNow>>
  /\ UNCHANGED <<variant, clock, market_data, dashboardCache, signalVars, forwardVars>>

\* market_data.map reads mql5Symbol.symbol: a TypeError on a null record, which
\* the error middleware answers
ViewThrows == \E i \in 1..Len(market_data) : IsNull(market_data[i])

GetMarketState ==
  /\ variant = "v3_dashboard"
  /\ request' = "GET /get-market-state"
  /\ response' = IF ViewThrows
                   THEN [status |-> 500, body |-> [error |-> NullSymbolError]]
                   ELSE [status |-> 200, body |-> getCompleteMarketState]
  /\ UNCHANGED <<variant, clock, marketVars, signalVars, forwardVars>>


-----------------------------------------------------------------------------
(* Trade signals, command ids and receipts *)

Signal(sym, action, cmd, lot, sl, tp, price, entry, comment) ==
  [symbol |-> sym, action |-> action, cmd_id |-> cmd, lot |-> lot, sl |-> sl,
   tp |-> tp, price |-> price, entry |-> entry, comment |-> comment]

\* the signals the signal source sends
BuyGold == Signal("XAUUSD", "BUY", UNDEFINED, UNDEFINED, "1890", "1950", "1920", "1920", UNDEFINED)
SellEuro == Signal("EURUSD", "SELL", "OX_1", "0.5", "1.09", "1.05", "1.08", UNDEFINED, "manual")
NoSymbol == Signal(UNDEFINED, "BUY", "OX_1", UNDEFINED, "1890", "1950", "1920", "1920", UNDEFINED)
NoAction == Signal("XAUUSD", UNDEFINED, UNDEFINED, "0.5", "1890", "1950", "1920", "1920", UNDEFINED)
NoSymbolNoAction == Signal(UNDEFINED, UNDEFINED, "OX_2", UNDEFINED, UNDEFINED, UNDEFINED, UNDEFINED, UNDEFINED, UNDEFINED)
TextEntry == Signal("XAUUSD", "SELL", "OX_1", "0", "1950", "1890", "1920", "at market", UNDEFINED)

Signals == {BuyGold, SellEuro, NoSymbol, NoAction, NoSymbolNoAction, TextEntry}

\* `OX_${t}`
GeneratedId(t) == "OX_" \o ToString(t)

\* cmd_ids a caller presents: a caller-chosen one, none, and the two generated
\* at the first clock reading
CmdIds ==
  {"OX_1", UNDEFINED, GeneratedId(Instant(0)), "SIG_" \o ToString(Instant(0) \div 1000)}

LotOverrides == {UNDEFINED, "0.2"}

Receipt(cmd, status) ==
  [cmd_id |-> cmd, symbol |-> "XAUUSD", action |-> "BUY", retcode |-> "10009",
   status |-> status]

Receipts ==
  {Receipt("OX_1", "SUCCESS"), Receipt("SIG_1", "SUCCESS"), Receipt(UNDEFINED, "FAILED")}

\* Map with insertion order, as a sequence of [cmd_id, entry]
MapHas(m, k) == \E i \in 1..Len(m) : m[i].cmd_id = k

MapGet(m, k) == (CHOOSE i \in 1..Len(m) : m[i].cmd_id = k)

\* a set that adds an entry without looking the key up
MapSetAlwaysAdds(m, k, v) == Append(m, [cmd_id |-> k, entry |-> v])

MapSet(m, k, v) ==
  IF MapHas(m, k)
    THEN [m EXCEPT ![MapGet(m, k)] = [cmd_id |-> k, entry |-> v]]
    ELSE Append(m, [cmd_id |-> k, entry |-> v])

MapDelete(m, k) == SelectSeq(m, LAMBDA e : e.cmd_id # k)

-----------------------------------------------------------------------------
(* v3 dashboard relay: approval workflow, command queue, receipt log *)

\* v?.toFixed(5) throws a TypeError on a value that is neither nullish nor a number
ToFixedThrows(v) == v \notin {UNDEFINED, NULL} /\ ~IsNumber(v)

\* error.message of that TypeError: the first of entry, sl, tp that throws
ToFixedError(signal) ==
  CASE ToFixedThrows(signal.entry) -> "signal.entry?.toFixed is not a function"
    [] ToFixedThrows(signal.sl) -> "signal.sl?.toFixed is not a function"
    [] OTHER -> "signal.tp?.toFixed is not a function"

\* a validation that rejects only a signal lacking both
MissingSymbolAndAction(signal) == ~Truthy(signal.symbol) /\ ~Truthy(signal.action)

\* the validation of /submit-signal
MissingSymbolOrAction(signal) == ~Truthy(signal.symbol) \/ ~Truthy(signal.action)

\* signal.cmd_id || `OX_${Date.now()}`
SubmitCmdId(signal) == Or(signal.cmd_id, GeneratedId(DateNow))

\* the entry stored by pendingApprovals.set
PendingEntry(signal) == [signal |-> signal, status |-> "PENDING", created_at |-> nowSec]

SubmitSignal(signal) ==
  /\ variant = "v3_dashboard"
  /\ request' = "POST /submit-signal"
  /\ IF MissingSymbolOrAction(signal)
       THEN /\ response' = [status |-> 400, body |-> [error |-> "Missing symbol or action"]]
            /\ UNCHANGED pendingApprovals
       ELSE LET cmdId == SubmitCmdId(signal)
            IN /\ MapHas(pendingApprovals, cmdId) \/ Len(pendingApprovals) < MaxPending
               /\ pendingApprovals' = MapSet(pendingApprovals, cmdId, PendingEntry(signal))
               /\ response' =
                    IF ToFixedThrows(signal.entry) \/ ToFixedThrows(signal.sl)
                       \/ ToFixedThrows(signal.tp)
                      THEN [status |-> 500, body |-> [error |-> ToFixedError(signal)]]
                      ELSE [status |-> 200,
                            body |-> [status |-> "PENDING_APPROVAL", cmd_id |-> cmdId,
                                      auto_approve_in_sec |-> 30]]
  /\ UNCHANGED <<variant, clock, marketVars, forwardVars, commandQueue, receipts,
                 activeSymbols, pushed, delivered>>

\* a command whose lot prefers the signal's own lot to the override
QueueSignalOwnLotFirst(cmd_id, lot, signal) ==
  [cmd_id |-> cmd_id,
   symbol |-> signal.symbol,
   action |-> signal.action,
   lot |-> Or(signal.lot, Or(lot, "0.1")),
   sl |-> signal.sl,
   tp |-> signal.tp,
   price |-> signal.price,
   comment |-> Or(signal.comment, "ORACLEX")]

\* the command built by /approve-signal
QueueSignal(cmd_id, lot, signal) ==
  [cmd_id |-> cmd_id,
   symbol |-> signal.symbol,
   action |-> signal.action,
   lot |-> Or(lot, Or(signal.lot, "0.1")),
   sl |-> signal.sl,
   tp |-> signal.tp,
   price |-> signal.price,
   comment |-> Or(signal.comment, "ORACLEX")]

\* an approve that marks the signal and leaves the push to a later turn
ApproveSignalMarksOnly(cmd_id, lot) ==
  /\ variant = "v3_dashboard"
  /\ request' = "POST /approve-signal"
  /\ pendingApprovals' =
       IF MapHas(pendingApprovals, cmd_id)
         THEN [pendingApprovals EXCEPT
                 ![MapGet(pendingApprovals, cmd_id)].entry.status = "APPROVED"]
         ELSE pendingApprovals
  /\ response' = [status |-> 200, body |-> [ok |-> TRUE, approved |-> TRUE]]
  /\ UNCHANGED <<variant, clock, marketVars, forwardVars, commandQueue, receipts,
                 activeSymbols, pushed, delivered>>

\* an approve that enqueues before it looks the signal up
ApproveSignalUnchecked(cmd_id, lot) ==
  LET queueSignal == [cmd_id |-> cmd_id, lot |-> Or(lot, "0.1")]
  IN /\ variant = "v3_dashboard"
     /\ request' = "POST /approve-signal"
     /\ Len(pushed) < MaxPushed
     /\ commandQueue' = Append(commandQueue, queueSignal)
     /\ pushed' = Append(pushed, queueSignal)
     /\ pendingApprovals' =
          IF MapHas(pendingApprovals, cmd_id)
            THEN [pendingApprovals EXCEPT
                    ![MapGet(pendingApprovals, cmd_id)].entry.status = "APPROVED"]
            ELSE pendingApprovals
     /\ response' = [status |-> 200, body |-> [ok |-> TRUE, approved |-> TRUE]]
     /\ UNCHANGED <<variant, clock, marketVars, forwardVars, receipts, activeSymbols,
                    delivered>>

\* an approve that queues a command only for a signal that is still PENDING
ApproveSignalPendingOnly(cmd_id, lot) ==
  /\ variant = "v3_dashboard"
  /\ request' = "POST /approve-signal"
  /\ IF /\ MapHas(pendingApprovals, cmd_id)
        /\ pendingApprovals[MapGet(pendingApprovals, cmd_id)].entry.status = "PENDING"
       THEN LET i == MapGet(pendingApprovals, cmd_id)
                pending == pendingApprovals[i].entry
                queueSignal == QueueSignal(cmd_id, lot, pending.signal)
            IN /\ Len(pushed) < MaxPushed
               /\ pendingApprovals' = [pendingApprovals EXCEPT ![i].entry.status = "APPROVED"]
               /\ commandQueue' = Append(commandQueue, queueSignal)
               /\ pushed' = Append(pushed, queueSignal)
       ELSE UNCHANGED <<pendingApprovals, commandQueue, pushed>>
  /\ response' = [status |-> 200, body |-> [ok |-> TRUE, approved |-> TRUE]]
  /\ UNCHANGED <<variant, clock, marketVars, forwardVars, receipts, activeSymbols,
                 delivered>>

ApproveSignal(cmd_id, lot) ==
  /\ variant = "v3_dashboard"
  /\ request' = "POST /approve-signal"
  /\ IF MapHas(pendingApprovals, cmd_id)
       THEN LET i == MapGet(pendingApprovals, cmd_id)
                pending == pendingApprovals[i].entry
                queueSignal == QueueSignal(cmd_id, lot, pending.signal)
            IN /\ Len(pushed) < MaxPushed
               /\ pendingApprovals' = [pendingApprovals EXCEPT ![i].entry.status = "APPROVED"]
               /\ commandQueue' = Append(commandQueue, queueSignal)
               /\ pushed' = Append(pushed, queueSignal)
       ELSE UNCHANGED <<pendingApprovals, commandQueue, pushed>>
  /\ response' = [status |-> 200, body |-> [ok |-> TRUE, approved |-> TRUE]]
  /\ UNCHANGED <<variant, clock, marketVars, forwardVars, receipts, activeSymbols,
                 delivered>>

NoneSentinel == [action |-> "NONE"]

\* a poll that leaves the command at the head of the queue
ShiftKeepsHead(queue) == queue

\* a poll that drains the queue
ShiftAll(queue) == <<>>

\* what commandQueue.shift() leaves in the queue
Shift(queue) == Tail(queue)

\* a poll that answers the head of the queue and leaves it queued
LastSignalPeeks ==
  /\ variant = "v3_dashboard"
  /\ request' = "GET /last-signal"
  /\ response' = IF Len(commandQueue) > 0
                   THEN [status |-> 200, body |-> Head(commandQueue)]
                   ELSE [status |-> 200, body |-> NoneSentinel]
  /\ UNCHANGED <<variant, clock, marketVars, forwardVars, signalVars>>

LastSignal ==
  /\ variant = "v3_dashboard"
  /\ request' = "GET /last-signal"
  /\ IF Len(commandQueue) > 0
       THEN /\ response' = [status |-> 200, body |-> Head(commandQueue)]
            /\ commandQueue' = Shift(commandQueue)
            /\ delivered' = Append(delivered, Head(commandQueue))
       ELSE /\ response' = [status |-> 200, body |-> NoneSentinel]
            /\ UNCHANGED <<commandQueue, delivered>>
  /\ UNCHANGED <<variant, clock, marketVars, forwardVars, pendingApprovals, receipts,
                 activeSymbols, pushed>>

\* a receipt handler that logs only the receipts that carry a cmd_id
ExecutionReceiptKeyedOnly(receipt) ==
  /\ variant = "v3_dashboard"
  /\ request' = "POST /execution-receipt"
  /\ Len(receipts) < MaxLog
  /\ receipts' = IF Truthy(receipt.cmd_id) THEN Append(receipts, receipt) ELSE receipts
  /\ pendingApprovals' = IF Truthy(receipt.cmd_id)
                           THEN MapDelete(pendingApprovals, receipt.cmd_id)
                           ELSE pendingApprovals
  /\ response' = [status |-> 200, body |-> [ok |-> TRUE, receipt_id |-> receipt.cmd_id]]
  /\ UNCHANGED <<variant, clock, marketVars, forwardVars, commandQueue, activeSymbols,
                 pushed, delivered>>

ExecutionReceipt(receipt) ==
  /\ variant = "v3_dashboard"
  /\ request' = "POST /execution-receipt"
  /\ Len(receipts) < MaxLog
  /\ receipts' = Append(receipts, receipt)
  /\ pendingApprovals' = IF Truthy(receipt.cmd_id)
                           THEN MapDelete(pendingApprovals, receipt.cmd_id)
                           ELSE pendingApprovals
  /\ response' = [status |-> 200, body |-> [ok |-> TRUE, receipt_id |-> receipt.cmd_id]]
  /\ UNCHANGED <<variant, clock, marketVars, forwardVars, commandQueue, activeSymbols,
                 pushed, delivered>>

\* a flush that answers FLUSHED and leaves the queue as it is
FlushQueueKeepsQueue ==
  /\ variant = "v3_dashboard"
  /\ request' = "POST /flush-queue"
  /\ response' = [status |-> 200, body |-> [status |-> "FLUSHED", ok |-> TRUE]]
  /\ UNCHANGED <<variant, clock, marketVars, forwardVars, signalVars>>

\* a flush that also forgets the tracked signals
FlushQueueForgetsPending ==
  /\ variant = "v3_dashboard"
  /\ request' = "POST /flush-queue"
  /\ commandQueue' = <<>>
  /\ pendingApprovals' = <<>>
  /\ pushed' = <<>>
  /\ delivered' = <<>>
  /\ response' = [status |-> 200, body |-> [status |-> "FLUSHED", ok |-> TRUE]]
  /\ UNCHANGED <<variant, clock, marketVars, forwardVars, receipts, activeSymbols>>

FlushQueue ==
  /\ variant = "v3_dashboard"
  /\ request' = "POST /flush-queue"
  /\ commandQueue' = <<>>
  /\ pushed' = <<>>
  /\ delivered' = <<>>
  /\ response' = [status |-> 200, body |-> [status |-> "FLUSHED", ok |-> TRUE]]
  /\ UNCHANGED <<variant, clock, marketVars, forwardVars, pendingApprovals, receipts,
                 activeSymbols>>

\* Math.max(0, 30 - (nowSec() - created_at))
AutoApproveInSec(created_at) ==
  IF 30 - (nowSec - created_at) > 0 THEN 30 - (nowSec - created_at) ELSE 0

\* the items of GET /pending-approvals, in Map order
PendingItems ==
  [i \in 1..Len(pendingApprovals) |->
     [cmd_id |-> pendingApprovals[i].cmd_id,
      symbol |-> pendingApprovals[i].entry.signal.symbol,
      action |-> pendingApprovals[i].entry.signal.action,
      status |-> pendingApprovals[i].entry.status,
      created_at |-> pendingApprovals[i].entry.created_at,
      auto_approve_in_sec |-> AutoApproveInSec(pendingApprovals[i].entry.created_at)]]

\* a listing that approves the signals whose countdown has reached 0
GetPendingApprovalsAutoApprove ==
  LET expired == {i \in 1..Len(pendingApprovals) :
                    AutoApproveInSec(pendingApprovals[i].entry.created_at) = 0}
  IN /\ variant = "v3_dashboard"
     /\ request' = "GET /pending-approvals"
     /\ response' = [status |-> 200,
                     body |-> [total |-> Len(PendingItems), items |-> PendingItems]]
     /\ pendingApprovals' =
          [i \in 1..Len(pendingApprovals) |->
             IF i \in expired
               THEN [pendingApprovals[i] EXCEPT !.entry.status = "APPROVED"]
               ELSE pendingApprovals[i]]
     /\ UNCHANGED <<variant, clock, marketVars, forwardVars, commandQueue, receipts,
                    activeSymbols, pushed, delivered>>

GetPendingApprovals ==
  /\ variant = "v3_dashboard"
  /\ request' = "GET /pending-approvals"
  /\ response' = [status |-> 200, body |-> [total |-> Len(PendingItems), items |-> PendingItems]]
  /\ UNCHANGED <<variant, clock, marketVars, signalVars, forwardVars>>

-----------------------------------------------------------------------------
(* v3 relay, railway revision: approval workflow *)

RailwaySubmitSignal(signal) ==
  /\ variant = "v3_railway_fixed"
  /\ request' = "POST /submit-signal"
  /\ IF MissingSymbolOrAction(signal)
       THEN /\ response' = [status |-> 400, body |-> [error |-> "Missing symbol or action"]]
            /\ UNCHANGED pendingApprovals
       ELSE LET cmdId == SubmitCmdId(signal)
            IN /\ MapHas(pendingApprovals, cmdId) \/ Len(pendingApprovals) < MaxPending
               /\ pendingApprovals' = MapSet(pendingApprovals, cmdId, PendingEntry(signal))
               /\ response' = [status |-> 200,
                               body |-> [status |-> "PENDING_APPROVAL", cmd_id |-> cmdId,
                                         auto_approve_in_sec |-> 30]]
  /\ UNCHANGED <<variant, clock, marketVars, forwardVars, commandQueue, receipts,
                 activeSymbols, pushed, delivered>>

RailwayApproveSignal(cmd_id, lot) ==
  /\ variant = "v3_railway_fixed"
  /\ request' = "POST /approve-signal"
  /\ IF MapHas(pendingApprovals, cmd_id)
       THEN LET i == MapGet(pendingApprovals, cmd_id)
                pending == pendingApprovals[i].entry
                queueSignal == QueueSignal(cmd_id, lot, pending.signal)
            IN /\ Len(pushed) < MaxPushed
               /\ pendingApprovals' = [pendingApprovals EXCEPT ![i].entry.status = "APPROVED"]
               /\ commandQueue' = Append(commandQueue, queueSignal)
               /\ pushed' = Append(pushed, queueSignal)
       ELSE UNCHANGED <<pendingApprovals, commandQueue, pushed>>
  /\ response' = [status |-> 200, body |-> [ok |-> TRUE]]
  /\ UNCHANGED <<variant, clock, marketVars, forwardVars, receipts, activeSymbols,
                 delivered>>

RailwayExecutionReceipt(receipt) ==
  /\ variant = "v3_railway_fixed"
  /\ request' = "POST /execution-receipt"
  /\ Len(receipts) < MaxReceipts
  /\ receipts' = Append(receipts, receipt)
  /\ pendingApprovals' = IF Truthy(receipt.cmd_id)
                           THEN MapDelete(pendingApprovals, receipt.cmd_id)
                           ELSE pendingApprovals
  /\ response' = [status |-> 200, body |-> [ok |-> TRUE]]
  /\ UNCHANGED <<variant, clock, marketVars, forwardVars, commandQueue, activeSymbols,
                 pushed, delivered>>

\* the items of GET /pending-approvals, in Map order: no countdown
RailwayPendingItems ==
  [i \in 1..Len(pendingApprovals) |->
     [cmd_id |-> pendingApprovals[i].cmd_id,
      symbol |-> pendingApprovals[i].entry.signal.symbol,
      action |-> pendingApprovals[i].entry.signal.action,
      status |-> pendingApprovals[i].entry.status,
      created_at |-> pendingApprovals[i].entry.created_at]]

RailwayGetPendingApprovals ==
  /\ variant = "v3_railway_fixed"
  /\ request' = "GET /pending-approvals"
  /\ response' = [status |-> 200,
                  body |-> [total |-> Len(RailwayPendingItems), items |-> RailwayPendingItems]]
  /\ UNCHANGED <<variant, clock, marketVars, signalVars, forwardVars>>

\* the findIndex callback on the railway store: the same lookup, a plain spread
RailwayUpsertSymbol(arr, new) ==
  LET existingIndex == IF arr = <<>> THEN 0 ELSE FindIndex(arr, new.symbol)
  IN IF existingIndex > 0
       THEN [arr EXCEPT ![existingIndex] = Spread(arr[existingIndex], new)]
       ELSE Append(arr, new)

RECURSIVE RailwayApplyBatch(_, _)
RailwayApplyBatch(arr, batch) ==
  IF batch = <<>> THEN [store |-> arr, threw |-> FALSE]
  ELSE IF UpsertThrows(arr, Head(batch)) THEN [store |-> arr, threw |-> TRUE]
  ELSE RailwayApplyBatch(RailwayUpsertSymbol(arr, Head(batch)), Tail(batch))

RailwayUpdateMarketState(body) ==
  /\ variant = "v3_railway_fixed"
  /\ request' = "POST /update-market-state"
  /\ IF ~body.isArray
       THEN /\ response' = InvalidFormat
            /\ UNCHANGED marketVars
       ELSE LET applied == RailwayApplyBatch(market_data, body.market_data)
                merged == applied.store
            IN /\ market_data' = merged
               /\ IF applied.threw
                    THEN /\ response' = [status |-> 500, body |-> [error |-> NullSymbolError]]
                         /\ UNCHANGED timestamp
                    ELSE /\ timestamp' = <<DateNow>>
                         /\ response' = [status |-> 200,
                                         body |-> [success |-> TRUE,
                                                   message |-> "Market state updated",
                                                   symbols_merged |-> Len(merged)]]
               /\ UNCHANGED dashboardCache
  /\ UNCHANGED <<variant, clock, signalVars, forwardVars>>

RailwayMarketAnalysis(body) ==
  /\ variant = "v3_railway_fixed"
  /\ request' = "POST /market-analysis"
  /\ IF ~body.isArray
       THEN /\ response' = InvalidFormat
            /\ UNCHANGED marketVars
       ELSE LET cached == CacheBatch(dashboardCache, body.market_data, DateNow)
            IN /\ dashboardCache' = cached.cache
               /\ IF cached.threw
                    THEN /\ response' = [status |-> 500, body |-> [error |-> NullSymbolError]]
                         /\ UNCHANGED timestamp
                    ELSE /\ timestamp' = IF timestamp = <<>> THEN <<DateNow>> ELSE timestamp
                         /\ response' = [status |-> 200,
                                         body |-> [success |-> TRUE,
                                                   message |-> "Analysis data cached",
                                                   symbols_cached |-> Len(body.market_data)]]
               /\ UNCHANGED market_data
  /\ UNCHANGED <<variant, clock, signalVars, forwardVars>>

\* legacy endpoint: the whole marketState object is replaced
RailwayDataUpdate(body) ==
  /\ variant = "v3_railway_fixed"
  /\ request' = "POST /data-update"
  /\ IF body.isArray
       THEN /\ market_data' = body.market_data
            /\ timestamp' = <<DateNow>>
       ELSE UNCHANGED <<market_data, timestamp>>
  /\ response' = [status |-> 200, body |-> [ok |-> TRUE]]
  /\ UNCHANGED <<variant, clock, dashboardCache, signalVars, forwardVars>>

\* mergeSymbolData of the railway revision: a record without symbol is served
\* as 'UNKNOWN'
RailwayMergeSymbolData(mql5Data, cache) ==
  LET py(f) == Python(cache, mql5Data.symbol, f)
  IN [symbol |-> Or(mql5Data.symbol, "UNKNOWN"),
      price |-> Or(mql5Data.price, Or(mql5Data.ask, "0")),
      ask |-> Or(mql5Data.ask, "0"),
      bias |-> Or(py("bias"), "NEUTRAL"),
      confidence |-> Or(py("confidence"), "0"),
      insight |-> Or(py("insight"), "Analyzing..."),
      indicators |-> Or(py("indicators"), "{}"),
      market_regime |-> Or(py("market_regime"), "REGIME_Unknown_Normal_Choppy"),
      confluence_breakdown |-> Or(py("confluence_breakdown"), "BREAKDOWN_40_30_20_10"),
      context_history |-> Or(py("context_history"), "[]"),
      state_statistics |-> Or(py("state_statistics"), "{}"),
      current_session |-> Or(py("current_session"), "Unknown"),
      ohlcv_micro |-> Or(mql5Data.ohlcv_micro, "[]"),
      ohlcv_macro |-> Or(mql5Data.ohlcv_macro, "[]")]

\* getCompleteMarketState of the railway revision
RailwayCompleteMarketState ==
  LET completeData == [i \in 1..Len(market_data) |->
                         RailwayMergeSymbolData(market_data[i], dashboardCache)]
  IN [market_data |-> completeData,
      timestamp |-> timestamp,
      data_age_sec |-> IF timestamp # <<>>
                         THEN (DateNow - timestamp[1]) \div 1000
                         ELSE 0,
      symbols_count |-> Len(completeData)]

RailwayGetMarketState ==
  /\ variant = "v3_railway_fixed"
  /\ request' = "GET /get-market-state"
  /\ response' = IF ViewThrows
                   THEN [status |-> 500, body |-> [error |-> NullSymbolError]]
                   ELSE [status |-> 200, body |-> RailwayCompleteMarketState]
  /\ UNCHANGED <<variant, clock, marketVars, signalVars, forwardVars>>

RailwayLastSignal ==
  /\ variant = "v3_railway_fixed"
  /\ request' = "GET /last-signal"
  /\ IF Len(commandQueue) > 0
       THEN /\ response' = [status |-> 200, body |-> Head(commandQueue)]
            /\ commandQueue' = Shift(commandQueue)
            /\ delivered' = Append(delivered, Head(commandQueue))
       ELSE /\ response' = [status |-> 200, body |-> NoneSentinel]
            /\ UNCHANGED <<commandQueue, delivered>>
  /\ UNCHANGED <<variant, clock, marketVars, forwardVars, pendingApprovals, receipts,
                 activeSymbols, pushed>>

RailwayFlushQueue ==
  /\ variant = "v3_railway_fixed"
  /\ request' = "POST /flush-queue"
  /\ commandQueue' = <<>>
  /\ pushed' = <<>>
  /\ delivered' = <<>>
  /\ response' = [status |-> 200, body |-> [status |-> "FLUSHED", ok |-> TRUE]]
  /\ UNCHANGED <<variant, clock, marketVars, forwardVars, pendingApprovals, receipts,
                 activeSymbols>>

-----------------------------------------------------------------------------
(* v2 relay (updated): legacy replacement, approval workflow, command queue *)

\* legacy endpoint: the whole marketState object is replaced
V2DataUpdate(body) ==
  /\ variant = "v2_updated"
  /\ request' = "POST /data-update"
  /\ IF body.isArray
       THEN /\ market_data' = [i \in 1..Len(body.market_data) |-> Widen(body.market_data[i])]
            /\ timestamp' = <<DateNow>>
       ELSE UNCHANGED <<market_data, timestamp>>
  /\ response' = [status |-> 200, body |-> [ok |-> TRUE, message |-> "Data received"]]
  /\ UNCHANGED <<variant, clock, dashboardCache, signalVars, forwardVars>>

V2SubmitSignal(signal) ==
  /\ variant = "v2_updated"
  /\ request' = "POST /submit-signal"
  /\ IF MissingSymbolOrAction(signal)
       THEN /\ response' = [status |-> 400, body |-> [error |-> "Missing symbol or action"]]
            /\ UNCHANGED pendingApprovals
       ELSE LET cmdId == SubmitCmdId(signal)
            IN /\ MapHas(pendingApprovals, cmdId) \/ Len(pendingApprovals) < MaxPending
               /\ pendingApprovals' = MapSet(pendingApprovals, cmdId, PendingEntry(signal))
               /\ response' =
                    IF ToFixedThrows(signal.entry) \/ ToFixedThrows(signal.sl)
                       \/ ToFixedThrows(signal.tp)
                      THEN [status |-> 500, body |-> [error |-> ToFixedError(signal)]]
                      ELSE [status |-> 200,
                            body |-> [status |-> "PENDING_APPROVAL", cmd_id |-> cmdId,
                                      auto_approve_in_sec |-> 30]]
  /\ UNCHANGED <<variant, clock, marketVars, forwardVars, commandQueue, receipts,
                 activeSymbols, pushed, delivered>>

\* the command built by /approve-signal: no comment
V2QueueSignal(cmd_id, lot, signal) ==
  [cmd_id |-> cmd_id,
   symbol |-> signal.symbol,
   action |-> signal.action,
   lot |-> Or(lot, Or(signal.lot, "0.1")),
   sl |-> signal.sl,
   tp |-> signal.tp,
   price |-> signal.price]

V2ApproveSignal(cmd_id, lot) ==
  /\ variant = "v2_updated"
  /\ request' = "POST /approve-signal"
  /\ IF MapHas(pendingApprovals, cmd_id)
       THEN LET i == MapGet(pendingApprovals, cmd_id)
                pending == pendingApprovals[i].entry
                queueSignal == V2QueueSignal(cmd_id, lot, pending.signal)
            IN /\ Len(pushed) < MaxPushed
               /\ pendingApprovals' = [pendingApprovals EXCEPT ![i].entry.status = "APPROVED"]
               /\ commandQueue' = Append(commandQueue, queueSignal)
               /\ pushed' = Append(pushed, queueSignal)
       ELSE UNCHANGED <<pendingApprovals, commandQueue, pushed>>
  /\ response' = [status |-> 200, body |-> [ok |-> TRUE]]
  /\ UNCHANGED <<variant, clock, marketVars, forwardVars, receipts, activeSymbols,
                 delivered>>

V2LastSignal ==
  /\ variant = "v2_updated"
  /\ request' = "GET /last-signal"
  /\ IF Len(commandQueue) > 0
       THEN /\ response' = [status |-> 200, body |-> Head(commandQueue)]
            /\ commandQueue' = Shift(commandQueue)
            /\ delivered' = Append(delivered, Head(commandQueue))
       ELSE /\ response' = [status |-> 200, body |-> NoneSentinel]
            /\ UNCHANGED <<commandQueue, delivered>>
  /\ UNCHANGED <<variant, clock, marketVars, forwardVars, pendingApprovals, receipts,
                 activeSymbols, pushed>>

V2ExecutionReceipt(receipt) ==
  /\ variant = "v2_updated"
  /\ request' = "POST /execution-receipt"
  /\ Len(receipts) < MaxReceipts
  /\ receipts' = Append(receipts, receipt)
  /\ pendingApprovals' = IF Truthy(receipt.cmd_id)
                           THEN MapDelete(pendingApprovals, receipt.cmd_id)
                           ELSE pendingApprovals
  /\ response' = [status |-> 200, body |-> [ok |-> TRUE]]
  /\ UNCHANGED <<variant, clock, marketVars, forwardVars, commandQueue, activeSymbols,
                 pushed, delivered>>

V2FlushQueue ==
  /\ variant = "v2_updated"
  /\ request' = "POST /flush-queue"
  /\ commandQueue' = <<>>
  /\ pushed' = <<>>
  /\ delivered' = <<>>
  /\ response' = [status |-> 200, body |-> [status |-> "FLUSHED"]]
  /\ UNCHANGED <<variant, clock, marketVars, forwardVars, pendingApprovals, receipts,
                 activeSymbols>>

V2GetPendingApprovals ==
  /\ variant = "v2_updated"
  /\ request' = "GET /pending-approvals"
  /\ response' = [status |-> 200, body |-> [total |-> Len(PendingItems), items |-> PendingItems]]
  /\ UNCHANGED <<variant, clock, marketVars, signalVars, forwardVars>>

-----------------------------------------------------------------------------
(* enhanced relay (V2.0): approval workflow, command queue, receipt log *)

\* `SIG_${nowSec()}`
EnhancedCmdId == "SIG_" \o ToString(nowSec)

\* { ...signal, status: 'PENDING', created_at, auto_approve_in_sec: 30 }
EnhancedPendingEntry(signal) ==
  [f \in DOMAIN signal \cup {"status", "created_at", "auto_approve_in_sec", "approved_at"} |->
     CASE f = "status" -> "PENDING"
       [] f = "created_at" -> nowSec
       [] f = "auto_approve_in_sec" -> 30
       [] f = "approved_at" -> <<>>
       [] OTHER -> signal[f]]

EnhancedSubmitSignal(signal) ==
  /\ variant = "enhanced"
  /\ request' = "POST /submit-signal"
  /\ IF MissingSymbolOrAction(signal)
       THEN /\ response' = [status |-> 400, body |-> [error |-> "Missing symbol or action"]]
            /\ UNCHANGED pendingApprovals
       ELSE LET cmdId == EnhancedCmdId
            IN /\ MapHas(pendingApprovals, cmdId) \/ Len(pendingApprovals) < MaxPending
               /\ pendingApprovals' =
                    MapSet(pendingApprovals, cmdId, EnhancedPendingEntry(signal))
               /\ response' = [status |-> 200,
                               body |-> [status |-> "PENDING_APPROVAL", cmd_id |-> cmdId]]
  /\ UNCHANGED <<variant, clock, marketVars, forwardVars, commandQueue, receipts,
                 activeSymbols, pushed, delivered>>

\* the command built by /approve-signal
EnhancedQueueSignal(pending) ==
  [symbol |-> pending.symbol,
   action |-> pending.action,
   lot |-> Or(pending.lot, "0.1"),
   entry |-> pending.entry,
   sl |-> pending.sl,
   tp |-> pending.tp]

EnhancedApproveSignal(cmd_id) ==
  /\ variant = "enhanced"
  /\ request' = "POST /approve-signal"
  /\ IF ~MapHas(pendingApprovals, cmd_id)
       THEN /\ response' = [status |-> 404, body |-> [error |-> "Signal not found"]]
            /\ UNCHANGED <<pendingApprovals, commandQueue, pushed>>
       ELSE LET i == MapGet(pendingApprovals, cmd_id)
                pending == pendingApprovals[i].entry
                queueSignal == EnhancedQueueSignal(pending)
            IN /\ Len(pushed) < MaxPushed
               /\ pendingApprovals' =
                    [pendingApprovals EXCEPT ![i].entry.status = "APPROVED",
                                             ![i].entry.approved_at = <<nowSec>>]
               /\ commandQueue' = Append(commandQueue, queueSignal)
               /\ pushed' = Append(pushed, queueSignal)
               /\ response' = [status |-> 200,
                               body |-> [status |-> "APPROVED", cmd_id |-> cmd_id]]
  /\ UNCHANGED <<variant, clock, marketVars, forwardVars, receipts, activeSymbols,
                 delivered>>

\* signal || 'NONE'
EnhancedNoneSentinel == "NONE"

\* commandQueue.shift() without a length test: { signal: signal || 'NONE' }
EnhancedLastSignal ==
  /\ variant = "enhanced"
  /\ request' = "GET /last-signal"
  /\ IF Len(commandQueue) > 0
       THEN /\ response' = [status |-> 200, body |-> [signal |-> Head(commandQueue)]]
            /\ commandQueue' = Shift(commandQueue)
            /\ delivered' = Append(delivered, Head(commandQueue))
       ELSE /\ response' = [status |-> 200, body |-> [signal |-> EnhancedNoneSentinel]]
            /\ UNCHANGED <<commandQueue, delivered>>
  /\ UNCHANGED <<variant, clock, marketVars, forwardVars, pendingApprovals, receipts,
                 activeSymbols, pushed>>

EnhancedExecutionReceipt(receipt) ==
  /\ variant = "enhanced"
  /\ request' = "POST /execution-receipt"
  /\ Len(receipts) < MaxReceipts
  /\ receipts' = Append(receipts, receipt)
  /\ activeSymbols' = IF receipt.status = "SUCCESS"
                        THEN Append(activeSymbols, receipt.symbol)
                        ELSE activeSymbols
  /\ response' = [status |-> 200, body |-> [ok |-> TRUE]]
  /\ UNCHANGED <<variant, clock, marketVars, forwardVars, commandQueue, pendingApprovals,
                 pushed, delivered>>

\* Array.from(pendingApprovals.values())
EnhancedGetPendingApprovals ==
  /\ variant = "enhanced"
  /\ request' = "GET /pending-approvals"
  /\ response' = [status |-> 200,
                  body |-> [pending_count |-> Len(pendingApprovals),
                            items |-> [i \in 1..Len(pendingApprovals) |->
                                         pendingApprovals[i].entry]]]
  /\ UNCHANGED <<variant, clock, marketVars, signalVars, forwardVars>>

\* the enhanced relay's price store: the merge of the v2 relay
EnhancedUpdateMarketState(body) ==
  /\ variant = "enhanced"
  /\ request' = "POST /update-market-state"
  /\ IF ~body.isArray
       THEN /\ response' = InvalidFormat
            /\ UNCHANGED marketVars
       ELSE LET applied == V2ApplyBatch(market_data, body.market_data)
                merged == applied.store
            IN /\ market_data' = merged
               /\ IF applied.threw
                    THEN /\ response' = [status |-> 500, body |-> [error |-> NullSymbolError]]
                         /\ UNCHANGED timestamp
                    ELSE /\ timestamp' = <<DateNow>>
                         /\ response' =
                              IF V2LogThrows(merged)
                                THEN [status |-> 500, body |-> [error |-> NullIndicatorsError]]
                                ELSE [status |-> 200,
                                      body |-> [success |-> TRUE,
                                                message |-> "Market state merged",
                                                symbols_merged |-> Len(merged)]]
               /\ UNCHANGED dashboardCache
  /\ UNCHANGED <<variant, clock, signalVars, forwardVars>>

\* legacy endpoint: marketState = { market_data, timestamp: Date.now() }, or 400
EnhancedDataUpdate(body) ==
  /\ variant = "enhanced"
  /\ request' = "POST /data-update"
  /\ IF body.isArray
       THEN /\ market_data' = [i \in 1..Len(body.market_data) |-> Widen(body.market_data[i])]
            /\ timestamp' = <<DateNow>>
            /\ response' = [status |-> 200, body |-> [ok |-> TRUE]]
       ELSE /\ response' = [status |-> 400, body |-> [error |-> "Invalid format"]]
            /\ UNCHANGED <<market_data, timestamp>>
  /\ UNCHANGED <<variant, clock, dashboardCache, signalVars, forwardVars>>

\* legacy endpoint: the analysis batch replaces the whole marketState object
EnhancedMarketAnalysis(body) ==
  /\ variant = "enhanced"
  /\ request' = "POST /market-analysis"
  /\ IF body.isArray
       THEN /\ market_data' = [i \in 1..Len(body.market_data) |-> Widen(body.market_data[i])]
            /\ timestamp' = <<DateNow>>
            /\ response' = [status |-> 200, body |-> [ok |-> TRUE]]
       ELSE /\ response' = [status |-> 400, body |-> [error |-> "Invalid format"]]
            /\ UNCHANGED <<market_data, timestamp>>
  /\ UNCHANGED <<variant, clock, dashboardCache, signalVars, forwardVars>>

-----------------------------------------------------------------------------
(* forwarding relay: stores each record by symbol, then forwards the batch *)

\* marketState.symbols[symbol] = sym, for the elements whose symbol is truthy
StoreSymbol(store, sym) ==
  IF ~Truthy(sym.symbol)
    THEN store
    ELSE LET i == FindIndex(store, sym.symbol)
         IN IF i = 0 THEN Append(store, sym) ELSE [store EXCEPT ![i] = sym]

RECURSIVE StoreBatch(_, _)
StoreBatch(store, items) ==
  IF items = <<>> THEN [store |-> store, threw |-> FALSE]
  ELSE IF IsNull(Head(items)) THEN [store |-> store, threw |-> TRUE]
  ELSE StoreBatch(StoreSymbol(store, Head(items)), Tail(items))

\* the body handed to forwardToPython('/market-data-v1.6', 'POST', ...)
ForwardedBody(items) == [server_time |-> nowSec, market_data |-> items]

\* the handler up to its await: the store is written, the forward is in flight
ForwardUpdateMarketState(body) ==
  /\ variant = "forward"
  /\ request' = "POST /update-market-state"
  /\ IF ~body.isArray
       THEN /\ response' = [status |-> 200, body |-> [error |-> "Invalid data"]]
            /\ UNCHANGED <<symbols, timestamp, inflight>>
       ELSE LET stored == StoreBatch(symbols, body.market_data)
            IN /\ symbols' = stored.store
               /\ IF stored.threw
                    THEN /\ response' = [status |-> 500, body |-> [error |-> NullSymbolError]]
                         /\ UNCHANGED <<timestamp, inflight>>
                    ELSE /\ Len(inflight) < MaxInflight
                         /\ timestamp' = <<DateNow>>
                         /\ inflight' = Append(inflight, ForwardedBody(body.market_data))
                         /\ response' = NoResponse
  /\ UNCHANGED <<variant, clock, market_data, dashboardCache, signalVars>>

\* what the await yields: a 200, another status, or a rejection
ForwardOutcomes == {"200", "500", "rejected"}

\* a handler that, when the forward did not return 200, takes the batch's
\* symbols out of the store again and answers with an error
ForwardSettledRollsBack(i, outcome) ==
  /\ variant = "forward"
  /\ i \in 1..Len(inflight)
  /\ request' = "POST /update-market-state"
  /\ inflight' = SubSeq(inflight, 1, i - 1) \o SubSeq(inflight, i + 1, Len(inflight))
  /\ IF outcome = "200"
       THEN /\ symbols' = symbols
            /\ response' = [status |-> 200,
                            body |-> [success |-> TRUE,
                                      symbols_stored |-> Len(inflight[i].market_data),
                                      total_symbols |-> Len(symbols)]]
       ELSE /\ symbols' = SelectSeq(symbols,
                                    LAMBDA r : \A k \in 1..Len(inflight[i].market_data) :
                                                 inflight[i].market_data[k].symbol # r.symbol)
            /\ response' = [status |-> 502, body |-> [error |-> "forward failed"]]
  /\ UNCHANGED <<variant, clock, marketVars, signalVars>>

\* the handler after its await: every outcome is answered with success
ForwardSettled(i, outcome) ==
  /\ variant = "forward"
  /\ i \in 1..Len(inflight)
  /\ request' = "POST /update-market-state"
  /\ inflight' = SubSeq(inflight, 1, i - 1) \o SubSeq(inflight, i + 1, Len(inflight))
  /\ response' = [status |-> 200,
                  body |-> [success |-> TRUE,
                            symbols_stored |-> Len(inflight[i].market_data),
                            total_symbols |-> Len(symbols)]]
  /\ UNCHANGED <<variant, clock, marketVars, signalVars, symbols>>

\* Object.values(marketState.symbols)
ForwardGetMarketState ==
  /\ variant = "forward"
  /\ request' = "GET /get-market-state"
  /\ response' = [status |-> 200,
                  body |-> [market_data |-> symbols,
                            timestamp |-> timestamp,
                            total_symbols |-> Len(symbols)]]
  /\ UNCHANGED <<variant, clock, marketVars, signalVars, forwardVars>>

-----------------------------------------------------------------------------
(* Specifications *)

Init ==
  /\ clock = 0
  /\ market_data = <<>>
  /\ timestamp = <<>>
  /\ dashboardCache = <<>>
  /\ commandQueue = <<>>
  /\ pendingApprovals = <<>>
  /\ receipts = <<>>
  /\ activeSymbols = <<>>
  /\ symbols = <<>>
  /\ inflight = <<>>
  /\ request = "none"
  /\ response = NoResponse
  /\ pushed = <<>>
  /\ delivered = <<>>

NextMarket ==
  \/ Tick
  \/ \E body \in PriceBodies \cup {NullInPriceBatch} : UpdateMarketState(body)
  \/ \E body \in PriceBodies : DataUpdate(body)
  \/ \E body \in AnalysisBodies \cup {NullInAnalysisBatch} : MarketAnalysis(body)
  \/ GetMarketState

InitMarket == variant = "v3_dashboard" /\ Init

\* the v3 dashboard relay's market side
SpecMarket == InitMarket /\ [][NextMarket]_vars

NextSignals ==
  \/ \E signal \in Signals : SubmitSignal(signal)
  \/ \E cmd_id \in CmdIds, lot \in LotOverrides : ApproveSignal(cmd_id, lot)
  \/ LastSignal
  \/ \E receipt \in Receipts : Len(receipts) < MaxReceipts /\ ExecutionReceipt(receipt)
  \/ FlushQueue

InitSignals == variant = "v3_dashboard" /\ Init

\* the v3 dashboard relay's approval workflow
SpecSignals == InitSignals /\ [][NextSignals]_vars

NextEnhancedWorkflow ==
  \/ \E signal \in Signals : EnhancedSubmitSignal(signal)
  \/ \E cmd_id \in CmdIds : EnhancedApproveSignal(cmd_id)
  \/ EnhancedLastSignal
  \/ \E receipt \in Receipts : EnhancedExecutionReceipt(receipt)
  \/ EnhancedGetPendingApprovals

\* the bodies sent to the legacy replacement endpoints
LegacyBodies == {BatchBody(<<EuroFull>>), NotAnArray}

\* the bodies sent to the market endpoints next to the approval workflow
WorkflowPriceBodies == {BatchBody(<<GoldFull>>), NotAnArray}
WorkflowAnalysisBodies == {BatchBody(<<GoldAnalysis>>), NotAnArray}

NextEnhanced ==
  \/ NextEnhancedWorkflow
  \/ \E body \in WorkflowPriceBodies \cup {NullInPriceBatch} : EnhancedUpdateMarketState(body)
  \/ \E body \in LegacyBodies : EnhancedDataUpdate(body)
  \/ \E body \in WorkflowAnalysisBodies : EnhancedMarketAnalysis(body)

InitEnhanced == variant = "enhanced" /\ Init

\* the enhanced relay
SpecEnhanced == InitEnhanced /\ [][NextEnhanced]_vars

InitApproval == variant \in {"v3_dashboard", "enhanced"} /\ Init

NextApproval == NextSignals \/ NextEnhancedWorkflow

\* the approval workflow under either response policy for an unknown cmd_id
SpecApproval == InitApproval /\ [][NextApproval]_vars

NextForward ==
  \/ Tick
  \/ \E body \in PriceBodies \cup {NullInPriceBatch} : ForwardUpdateMarketState(body)
  \/ \E i \in 1..MaxInflight, outcome \in ForwardOutcomes : ForwardSettled(i, outcome)
  \/ ForwardGetMarketState

InitForward == variant = "forward" /\ Init

\* the forwarding relay
SpecForward == InitForward /\ [][NextForward]_vars

\* the signals presented to the workflow next to the market endpoints, and the
\* cmd_ids callers present
WorkflowSignals == {BuyGold, SellEuro, NoAction}
CallerCmdIds == {"OX_1", UNDEFINED}

\* the bodies sent to the v2 relay's market endpoints
V2PriceBodies ==
  {BatchBody(<<GoldFull>>), BatchBody(<<GoldTick>>), BatchBody(<<EuroFull>>), NotAnArray}
V2AnalysisBodies ==
  {BatchBody(<<GoldAnalysis>>), BatchBody(<<GoldPartial>>), NotAnArray}

NextV2Workflow ==
  \/ \E signal \in WorkflowSignals : V2SubmitSignal(signal)
  \/ \E cmd_id \in CallerCmdIds : V2ApproveSignal(cmd_id, UNDEFINED)
  \/ V2LastSignal
  \/ \E receipt \in {r \in Receipts : r.cmd_id = "OX_1"} : V2ExecutionReceipt(receipt)
  \/ V2FlushQueue
  \/ V2GetPendingApprovals

NextV2 ==
  \/ Tick
  \/ \E body \in V2PriceBodies \cup {NullInPriceBatch} : V2UpdateMarketState(body)
  \/ \E body \in V2AnalysisBodies \cup {NullInAnalysisBatch} : V2MarketAnalysis(body)
  \/ \E body \in LegacyBodies : V2DataUpdate(body)
  \/ V2GetMarketState
  \/ NextV2Workflow

InitV2 == variant = "v2_updated" /\ Init

\* the v2 relay
SpecV2 == InitV2 /\ [][NextV2]_vars

\* the signals submitted while the clock runs: the two that are accepted
TimedSignals == {BuyGold, SellEuro}

NextTimed ==
  \/ Tick
  \/ \E signal \in TimedSignals : SubmitSignal(signal)
  \/ \E cmd_id \in CmdIds, lot \in LotOverrides : ApproveSignal(cmd_id, lot)
  \/ LastSignal
  \/ GetPendingApprovals

InitTimed == variant = "v3_dashboard" /\ Init

\* the v3 dashboard relay's approval workflow as time passes, without flush
\* and without receipts
SpecTimed == InitTimed /\ [][NextTimed]_vars

InitReads == variant \in {"v3_dashboard", "forward"} /\ Init

NextReads == NextTimed \/ NextForward

\* reads taken between the handlers' turns: the v3 dashboard relay's approval
\* workflow, and the forwarding relay whose upsert is suspended on its forward
SpecReads == InitReads /\ [][NextReads]_vars

InitLog == variant = "v3_dashboard" /\ Init

NextLog ==
  \/ \E signal \in TimedSignals : SubmitSignal(signal)
  \/ \E cmd_id \in CmdIds, lot \in LotOverrides : ApproveSignal(cmd_id, lot)
  \/ LastSignal
  \/ \E receipt \in Receipts : ExecutionReceipt(receipt)
  \/ FlushQueue
  \/ GetPendingApprovals

\* the v3 dashboard relay's approval workflow with a receipt log of several
\* receipts
SpecLog == InitLog /\ [][NextLog]_vars

\* the batches sent while signals are handled: one price batch, one analysis batch
RelayPriceBodies == {BatchBody(<<GoldFull>>)}

RelayAnalysisBodies == {BatchBody(<<GoldAnalysis>>)}

InitRelay == variant = "v3_dashboard" /\ Init

NextRelay ==
  \/ \E signal \in TimedSignals : SubmitSignal(signal)
  \/ \E cmd_id \in CmdIds : ApproveSignal(cmd_id, UNDEFINED)
  \/ LastSignal
  \/ \E receipt \in Receipts : Len(receipts) < MaxReceipts /\ ExecutionReceipt(receipt)
  \/ FlushQueue
  \/ GetPendingApprovals
  \/ \E body \in RelayPriceBodies : UpdateMarketState(body)
  \/ \E body \in RelayPriceBodies : DataUpdate(body)
  \/ \E body \in RelayAnalysisBodies : MarketAnalysis(body)
  \/ GetMarketState

\* the v3 dashboard relay with every endpoint that touches a store
SpecRelay == InitRelay /\ [][NextRelay]_vars

NextRailway ==
  \/ Tick
  \/ \E signal \in WorkflowSignals : RailwaySubmitSignal(signal)
  \/ \E cmd_id \in CallerCmdIds, lot \in LotOverrides : RailwayApproveSignal(cmd_id, lot)
  \/ \E receipt \in {r \in Receipts : r.cmd_id = "OX_1"} : RailwayExecutionReceipt(receipt)
  \/ RailwayGetPendingApprovals
  \/ RailwayLastSignal
  \/ RailwayFlushQueue
  \/ \E body \in WorkflowPriceBodies \cup {NullInPriceBatch, BatchBody(<<NoSymbolTick>>)} :
       RailwayUpdateMarketState(body)
  \/ RailwayGetMarketState
  \/ \E body \in WorkflowAnalysisBodies \cup {NullInAnalysisBatch} : RailwayMarketAnalysis(body)
  \/ \E body \in LegacyBodies : RailwayDataUpdate(body)

InitRailway == variant = "v3_railway_fixed" /\ Init

\* the railway revision as time passes
SpecRailway == InitRailway /\ [][NextRailway]_vars

InitDrain == variant = "v3_dashboard" /\ Init

NextDrain ==
  \/ \E signal \in TimedSignals : SubmitSignal(signal)
  \/ \E cmd_id \in CmdIds, lot \in LotOverrides : ApproveSignal(cmd_id, lot)
  \/ LastSignal
  \/ \E receipt \in Receipts : Len(receipts) < MaxReceipts /\ ExecutionReceipt(receipt)
  \/ GetPendingApprovals

\* the v3 dashboard relay's approval workflow with an execution agent that
\* keeps polling and no flush
SpecDrain == InitDrain /\ [][NextDrain]_vars /\ WF_vars(LastSignal)

-----------------------------------------------------------------------------
(* Claims *)

\* the per-symbol price records the relay holds, whichever store it keeps them in
StoredRecords == IF variant = "forward" THEN symbols ELSE market_data

\* the value of field F in the stored record of symbol S
StoredField(store, S, F) ==
  LET i == FindIndex(store, S)
  IN IF i = 0 THEN UNDEFINED ELSE store[i][F]

\* some element of the batch is for symbol S and carries field F
Carries(items, S, F) ==
  \E i \in 1..Len(items) : items[i].symbol = S /\ items[i][F] # UNDEFINED

\* C1: sticky merge. Whenever POST /update-market-state handles a batch, every
\* field F of every stored symbol S that no element of the batch carries for S
\* keeps the value it had before the update, that is the value left by the
\* latest earlier update for S that carried F.
C1_StickyMerge ==
  [][\A body \in PriceBodies :
       ((UpdateMarketState(body) \/ ForwardUpdateMarketState(body)) /\ body.isArray)
         => \A i \in 1..Len(StoredRecords), F \in PriceFields :
              LET S == StoredRecords[i].symbol
              IN ~Carries(body.market_data, S, F)
                   => StoredField(StoredRecords', S, F) = StoredField(StoredRecords, S, F)]_vars

\* C2: the command queue is FIFO with destructive read. Since the last flush,
\* the commands GET /last-signal has returned, followed by the commands still
\* queued, are exactly the commands POST /approve-signal pushed, in push order:
\* each pushed command is returned once, in order, none skipped or repeated.
C2_FifoDestructiveRead == delivered \o commandQueue = pushed

\* two different commands were approved and both have been polled, in order
C2_Witness ==
  /\ request = "GET /last-signal"
  /\ Len(delivered) = 2
  /\ delivered[1] # delivered[2]
  /\ commandQueue = <<>>

\* C4: price presence gates inclusion. The merged view has one element per
\* price record, in store order and under the record's symbol; a symbol that
\* only the analysis cache knows is in no element of the view.
C4_PriceGatesView ==
  LET view == IF variant = "v3_railway_fixed"
                THEN RailwayCompleteMarketState.market_data
                ELSE getCompleteMarketState.market_data
  IN /\ Len(view) = Len(market_data)
     /\ \A i \in 1..Len(view) : view[i].symbol = market_data[i].symbol
     /\ \A S \in DOMAIN dashboardCache :
          FindIndex(market_data, S) = 0 => FindIndex(view, S) = 0

\* C6: a submit whose signal lacks symbol or lacks action is answered with the
\* validation error (400) and leaves the pending set, the command queue and the
\* receipt log unchanged.
C6_SubmitValidation ==
  [][\A signal \in Signals :
       (SubmitSignal(signal) /\ (signal.symbol = UNDEFINED \/ signal.action = UNDEFINED))
         => /\ response' = [status |-> 400, body |-> [error |-> "Missing symbol or action"]]
            /\ UNCHANGED <<pendingApprovals, commandQueue, receipts>>]_vars

\* a submit was rejected while signals were tracked and a command was queued
C6_Witness ==
  /\ request = "POST /submit-signal"
  /\ response.status = 400
  /\ Len(pendingApprovals) > 0
  /\ Len(commandQueue) > 0

\* C8: an approve whose cmd_id is not tracked leaves the command queue and the
\* pending set unchanged, whether the relay answers ok (lenient) or 404 (strict).
C8_ApproveUnknown ==
  [][\A cmd_id \in CmdIds, lot \in LotOverrides :
       ((ApproveSignal(cmd_id, lot) \/ EnhancedApproveSignal(cmd_id))
          /\ ~MapHas(pendingApprovals, cmd_id))
         => /\ UNCHANGED <<commandQueue, pendingApprovals>>
            /\ response'.status = IF variant = "enhanced" THEN 404 ELSE 200]_vars

\* the lenient relay answered an approve of a cmd_id that a receipt had retired
C8_Witness ==
  /\ request = "POST /approve-signal"
  /\ response = [status |-> 200, body |-> [ok |-> TRUE, approved |-> TRUE]]
  /\ pushed = <<>>
  /\ receipts = <<Receipt("OX_1", "SUCCESS")>>
  /\ Len(pendingApprovals) > 0

\* C9: an approve of a tracked cmd_id marks that signal APPROVED and appends one
\* command at the tail of the queue with the signal's symbol, action, stop,
\* target and price and with the lot of the override, else of the signal, else
\* 0.1; the other tracked signals and the queued commands stay as they were.
C9_ApproveTracked ==
  [][\A cmd_id \in CmdIds, lot \in LotOverrides :
       (ApproveSignal(cmd_id, lot) /\ MapHas(pendingApprovals, cmd_id))
         => LET i == MapGet(pendingApprovals, cmd_id)
                signal == pendingApprovals[i].entry.signal
                queued == commandQueue'[Len(commandQueue')]
            IN /\ Len(pendingApprovals') = Len(pendingApprovals)
               /\ pendingApprovals'[i].entry.status = "APPROVED"
               /\ pendingApprovals'[i].entry.signal = signal
               /\ \A j \in 1..Len(pendingApprovals) :
                    j # i => pendingApprovals'[j] = pendingApprovals[j]
               /\ Len(commandQueue') = Len(commandQueue) + 1
               /\ SubSeq(commandQueue', 1, Len(commandQueue)) = commandQueue
               /\ queued.cmd_id = cmd_id
               /\ queued.symbol = signal.symbol
               /\ queued.action = signal.action
               /\ queued.sl = signal.sl
               /\ queued.tp = signal.tp
               /\ queued.price = signal.price
               /\ queued.lot = IF Truthy(lot) THEN lot
                               ELSE IF Truthy(signal.lot) THEN signal.lot
                               ELSE "0.1"]_vars

\* a signal with a lot of its own was approved with an override, behind a
\* queued command, while another signal stayed PENDING
C9_Witness ==
  /\ request = "POST /approve-signal"
  /\ Len(commandQueue) = 2
  /\ commandQueue[2].cmd_id = "OX_1"
  /\ commandQueue[2].lot = "0.2"
  /\ Len(pendingApprovals) = 2
  /\ \E i, j \in 1..2 :
       /\ pendingApprovals[i].entry.status = "PENDING"
       /\ pendingApprovals[j].cmd_id = "OX_1"
       /\ pendingApprovals[j].entry.signal.lot = "0.5"
       /\ pendingApprovals[j].entry.status = "APPROVED"

\* the value of analysis field F that the relay holds for symbol S
AnalysisOf(S, F) ==
  IF variant = "v2_updated" THEN StoredField(market_data, S, F)
  ELSE Python(dashboardCache, S, F)

\* the relay holds analysis for symbol S
AnalysisKnown(S) ==
  IF variant = "v2_updated" THEN FindIndex(market_data, S) # 0
  ELSE S \in DOMAIN dashboardCache

\* C3: wholesale replace. Whenever POST /market-analysis handles a batch, the
\* analysis held for each symbol S of the batch is, field by field, the payload
\* of the batch's last element for S: a field that element omits is held as
\* absent (to be read back as its default), not with its previous value.
C3_WholesaleReplace ==
  [][\A body \in AnalysisBodies :
       ((MarketAnalysis(body) \/ V2MarketAnalysis(body)) /\ body.isArray)
         => \A i \in 1..Len(body.market_data) :
              LET put == body.market_data[i]
                  later == {j \in (i + 1)..Len(body.market_data) :
                              body.market_data[j].symbol = put.symbol}
              IN (Truthy(put.symbol) /\ later = {} /\ AnalysisKnown(put.symbol)')
                   => \A F \in AnalysisFields :
                        AnalysisOf(put.symbol, F)' = put[F]]_vars

\* C5: a receipt whose cmd_id matches a tracked signal removes that signal from
\* tracking, whether it was PENDING or APPROVED, so the pending list no longer
\* has it.
C5_ReceiptRetires ==
  [][\A receipt \in Receipts :
       ((ExecutionReceipt(receipt) \/ EnhancedExecutionReceipt(receipt))
          /\ MapHas(pendingApprovals, receipt.cmd_id))
         => ~MapHas(pendingApprovals', receipt.cmd_id)]_vars

\* C7: a successful submit tracks the signal under the caller's cmd_id when one
\* is given, otherwise under a generated id, as PENDING with its creation time,
\* and answers that cmd_id with PENDING_APPROVAL and auto_approve_in_sec = 30;
\* the command queue is unchanged.
C7_SubmitTracks ==
  [][\A signal \in Signals :
       ((SubmitSignal(signal) \/ EnhancedSubmitSignal(signal)) /\ response'.status = 200)
         => LET cmdId == response'.body.cmd_id
            IN /\ signal.cmd_id # UNDEFINED => cmdId = signal.cmd_id
               /\ MapHas(pendingApprovals', cmdId)
               /\ pendingApprovals'[MapGet(pendingApprovals', cmdId)].entry.status = "PENDING"
               /\ pendingApprovals'[MapGet(pendingApprovals', cmdId)].entry.created_at = nowSec
               /\ response'.body.status = "PENDING_APPROVAL"
               /\ "auto_approve_in_sec" \in DOMAIN response'.body
               /\ response'.body.auto_approve_in_sec = 30
               /\ UNCHANGED commandQueue]_vars

\* C10: one command per approved signal. An approve of a signal that is already
\* APPROVED pushes no second command for it.
C10_ApproveOnce ==
  [][\A cmd_id \in CmdIds, lot \in LotOverrides :
       ((ApproveSignal(cmd_id, lot) \/ EnhancedApproveSignal(cmd_id))
          /\ MapHas(pendingApprovals, cmd_id)
          /\ pendingApprovals[MapGet(pendingApprovals, cmd_id)].entry.status = "APPROVED")
         => UNCHANGED <<commandQueue, pushed>>]_vars

\* C11: APPROVED is terminal. A tracked signal that is APPROVED is, after any
\* step, either removed from tracking by a receipt for its cmd_id or still
\* tracked as APPROVED with the same payload.
C11_ApprovedIsTerminal ==
  [][\A i \in 1..Len(pendingApprovals) :
       LET tracked == pendingApprovals[i]
       IN tracked.entry.status = "APPROVED"
            => \/ \E receipt \in Receipts :
                    ExecutionReceipt(receipt) /\ receipt.cmd_id = tracked.cmd_id
               \/ /\ MapHas(pendingApprovals', tracked.cmd_id)
                  /\ pendingApprovals'[MapGet(pendingApprovals', tracked.cmd_id)].entry
                       = tracked.entry]_vars

\* C12: no automatic approval. A PENDING signal becomes APPROVED only in a
\* step of POST /approve-signal for its cmd_id, and the command queue grows
\* only in such a step, by a command for that cmd_id; the passage of time and
\* every other request leave status and queue as they were.
C12_NoAutomaticApproval ==
  [][/\ \A i \in 1..Len(pendingApprovals) :
          LET tracked == pendingApprovals[i]
          IN (/\ tracked.entry.status = "PENDING"
              /\ MapHas(pendingApprovals', tracked.cmd_id)
              /\ pendingApprovals'[MapGet(pendingApprovals', tracked.cmd_id)].entry.status
                   = "APPROVED")
               => \E lot \in LotOverrides : ApproveSignal(tracked.cmd_id, lot)
     /\ Len(commandQueue') > Len(commandQueue)
          => \E cmd_id \in CmdIds, lot \in LotOverrides :
               /\ ApproveSignal(cmd_id, lot)
               /\ MapHas(pendingApprovals, cmd_id)
               /\ commandQueue'[Len(commandQueue')].cmd_id = cmd_id]_vars

\* the countdown of a PENDING signal was reported as 0 and nothing was queued
C12_Witness ==
  /\ request = "GET /pending-approvals"
  /\ commandQueue = <<>>
  /\ pushed = <<>>
  /\ \E i \in 1..Len(pendingApprovals) :
       /\ pendingApprovals[i].entry.status = "PENDING"
       /\ response.body.items[i].status = "PENDING"
       /\ response.body.items[i].auto_approve_in_sec = 0

\* C13: flush empties the command queue whatever it holds, and a poll that
\* directly follows a flush is answered with the NONE sentinel.
C13_FlushThenPoll ==
  [][/\ FlushQueue => commandQueue' = <<>>
     /\ (request = "POST /flush-queue" /\ LastSignal)
          => response' = [status |-> 200, body |-> NoneSentinel]]_vars

\* a command was approved, the queue was flushed, and the poll got NONE
C13_Witness ==
  /\ request = "GET /last-signal"
  /\ response.body = NoneSentinel
  /\ pushed = <<>>
  /\ delivered = <<>>
  /\ \E i \in 1..Len(pendingApprovals) : pendingApprovals[i].entry.status = "APPROVED"

\* C14: a poll of an empty queue is answered normally (200) with the relay's
\* NONE sentinel and leaves the queue, the pending set and the receipt log
\* unchanged; a poll of a non-empty queue is answered with the head and
\* removes exactly that element.
C14_PollEmptyOrHead ==
  [][(LastSignal \/ EnhancedLastSignal)
       => /\ response'.status = 200
          /\ UNCHANGED <<pendingApprovals, receipts>>
          /\ IF commandQueue = <<>>
               THEN /\ response'.body = IF variant = "enhanced"
                                          THEN [signal |-> "NONE"]
                                          ELSE [action |-> "NONE"]
                    /\ commandQueue' = <<>>
               ELSE /\ response'.body = IF variant = "enhanced"
                                          THEN [signal |-> commandQueue[1]]
                                          ELSE commandQueue[1]
                    /\ commandQueue' = SubSeq(commandQueue, 2, Len(commandQueue))]_vars

\* a poll returned the head of a queue of two and left the second queued
C14_Witness ==
  /\ request = "GET /last-signal"
  /\ Len(delivered) = 1
  /\ Len(commandQueue) = 1
  /\ Len(pushed) = 2
  /\ pushed[1] # pushed[2]
  /\ response.body \in {delivered[1], [signal |-> delivered[1]]}

\* some element of the batch is for symbol S and carries a non-null field F
CarriesValue(items, S, F) ==
  \E i \in 1..Len(items) : items[i].symbol = S /\ items[i][F] \notin {UNDEFINED, NULL}

\* C15: a null field counts as absent. Whenever POST /update-market-state
\* handles a batch, every field F of every stored symbol S for which the batch
\* carries no value other than null keeps its stored value.
C15_NullIsAbsent ==
  [][\A body \in PriceBodies :
       (UpdateMarketState(body) /\ body.isArray)
         => \A i \in 1..Len(market_data), F \in PriceFields :
              LET S == market_data[i].symbol
              IN ~CarriesValue(body.market_data, S, F)
                   => StoredField(market_data', S, F) = StoredField(market_data, S, F)]_vars

\* C16: elements without a symbol are skipped. After POST /update-market-state
\* a record without a symbol is in the store only if it was there before, in
\* the same place and unchanged: the upsert neither creates nor modifies one.
C16_SymbolLessSkipped ==
  [][\A body \in PriceBodies :
       (UpdateMarketState(body) /\ body.isArray)
         => /\ response'.status = 200
            /\ \A i \in 1..Len(market_data') :
                 ~Truthy(market_data'[i].symbol)
                   => i <= Len(market_data) /\ market_data'[i] = market_data[i]]_vars

\* C17: the price store never loses a symbol. Every symbol that has a record
\* before a step has a record after it.
C17_NeverLosesSymbol ==
  [][\A i \in 1..Len(market_data) :
       FindIndex(market_data', market_data[i].symbol) # 0]_vars

\* C18: a rejected batch mutates nothing. Whenever POST /update-market-state or
\* POST /market-analysis answers with an error status, the price store, the
\* analysis cache and the last-batch timestamp are as they were before the call.
C18_RejectedBatchMutatesNothing ==
  [][/\ \A body \in PriceBodies \cup {NullInPriceBatch} :
          (UpdateMarketState(body) /\ response'.status >= 400)
            => UNCHANGED <<market_data, dashboardCache, timestamp>>
     /\ \A body \in AnalysisBodies \cup {NullInAnalysisBatch} :
          (MarketAnalysis(body) /\ response'.status >= 400)
            => UNCHANGED <<market_data, dashboardCache, timestamp>>]_vars

\* C19: the view is a pure read. GET /get-market-state leaves the price store,
\* the analysis cache, the timestamp, the pending set, the command queue and
\* the receipt log unchanged, and a read that follows a read with no other
\* request between them returns the same per-symbol records.
C19_ViewIsPureRead ==
  [][GetMarketState
       => /\ UNCHANGED <<market_data, dashboardCache, timestamp, pendingApprovals,
                         commandQueue, receipts>>
          /\ response'.body.market_data = getCompleteMarketState.market_data
          /\ request = "GET /get-market-state"
               => response'.body.market_data = response.body.market_data]_vars

\* the view of two priced symbols, one of them analysed, was read some time
\* after the last batch
C19_Witness ==
  /\ request = "GET /get-market-state"
  /\ response.body.symbols_count = 2
  /\ response.body.data_age_sec > 0
  /\ \E i, j \in 1..2 :
       /\ response.body.market_data[i].bias = "BULLISH"
       /\ response.body.market_data[j].bias = "NEUTRAL"

\* C20: no torn reads. A read of the forwarding relay's store taken while an
\* upsert is suspended on its forward has a record for every symbol of that
\* batch, and a listing of the pending set shows a signal as APPROVED only
\* when its command has been pushed.
C20_NoTornReads ==
  [][/\ ForwardGetMarketState
          => \A i \in 1..Len(inflight) :
               \A k \in 1..Len(inflight[i].market_data) :
                 LET sym == inflight[i].market_data[k]
                 IN Truthy(sym.symbol)
                      => FindIndex(response'.body.market_data, sym.symbol) # 0
     /\ GetPendingApprovals
          => \A k \in 1..Len(response'.body.items) :
               response'.body.items[k].status = "APPROVED"
                 => \E j \in 1..Len(pushed) :
                      pushed[j].cmd_id = response'.body.items[k].cmd_id]_vars

\* the store was read while an upsert of two symbols was suspended
C20_Witness ==
  /\ request = "GET /get-market-state"
  /\ Len(inflight) > 0
  /\ Len(inflight[1].market_data) = 2
  /\ inflight[1].market_data[1].symbol # inflight[1].market_data[2].symbol
  /\ response.body.total_symbols = 2

\* the log is a prefix of the later log
IsPrefix(log, later) ==
  Len(log) <= Len(later) /\ SubSeq(later, 1, Len(log)) = log

\* C21: the receipt log is append-only. POST /execution-receipt appends the
\* receipt at the end of the log whether or not it has a cmd_id and whether or
\* not the cmd_id is tracked, and after every step the earlier log is a prefix
\* of the log.
C21_ReceiptLogAppendOnly ==
  [][/\ \A receipt \in Receipts :
          ExecutionReceipt(receipt) => receipts' = Append(receipts, receipt)
     /\ IsPrefix(receipts, receipts')]_vars

\* a receipt without a cmd_id was logged behind a receipt for a cmd_id that
\* was never tracked
C21_Witness ==
  /\ request = "POST /execution-receipt"
  /\ receipts = <<Receipt("SIG_1", "SUCCESS"), Receipt(UNDEFINED, "FAILED")>>
  /\ Len(pendingApprovals) > 0

\* C22: a tracked signal leaves tracking only through a receipt with its
\* cmd_id. Whenever a cmd_id that is tracked before a step is not tracked after
\* it, the step is POST /execution-receipt with a receipt for that cmd_id;
\* approve, poll, flush, submit, the price and analysis updates and the reads
\* remove no entry.
C22_OnlyReceiptRetires ==
  [][\A i \in 1..Len(pendingApprovals) :
       ~MapHas(pendingApprovals', pendingApprovals[i].cmd_id)
         => \E receipt \in Receipts :
              /\ ExecutionReceipt(receipt)
              /\ receipt.cmd_id = pendingApprovals[i].cmd_id]_vars

\* a receipt retired OX_1, and the other signal is still tracked as APPROVED
\* after its command was flushed and a price batch and an analysis batch came
C22_Witness ==
  /\ request = "GET /get-market-state"
  /\ receipts = <<Receipt("OX_1", "SUCCESS")>>
  /\ ~MapHas(pendingApprovals, "OX_1")
  /\ Len(pendingApprovals) = 1
  /\ pendingApprovals[1].entry.status = "APPROVED"
  /\ pushed = <<>>
  /\ Len(market_data) > 0
  /\ DOMAIN dashboardCache # {}

\* C23: the last-batch timestamp is set only by a price update. The timestamp
\* changes only in a step of a price endpoint that accepts an array, never in
\* POST /market-analysis or by the passage of time; and GET /get-market-state
\* reports data_age_sec = 0 while the timestamp was never set, otherwise the
\* non-negative whole seconds since it was set.
C23_TimestampOnlyByPriceUpsert ==
  [][/\ timestamp' # timestamp
          => \E body \in PriceBodies :
               (UpdateMarketState(body) \/ DataUpdate(body)) /\ body.isArray
     /\ GetMarketState
          => /\ response'.body.data_age_sec >= 0
             /\ response'.body.data_age_sec =
                  IF timestamp = <<>> THEN 0 ELSE (DateNow - timestamp[1]) \div 1000]_vars

\* the documented default of each analysis field of the view
AnalysisDefaults ==
  [bias |-> "NEUTRAL", confidence |-> "0", insight |-> "Analyzing...",
   indicators |-> "{}", market_regime |-> "REGIME_Unknown_Normal_Choppy",
   confluence_breakdown |-> "BREAKDOWN_40_30_20_10", context_history |-> "[]",
   state_statistics |-> "STATS_50_25_25", current_session |-> "Unknown"]

C25_PendingListing ==
  [][/\ (GetPendingApprovals \/ RailwayGetPendingApprovals)
          => /\ Len(response'.body.items) = Len(pendingApprovals)
             /\ \A i \in 1..Len(pendingApprovals) :
                  LET item == response'.body.items[i]
                      tracked == pendingApprovals[i]
                      age == nowSec - tracked.entry.created_at
                  IN /\ item.cmd_id = tracked.cmd_id
                     /\ item.symbol = tracked.entry.signal.symbol
                     /\ item.action = tracked.entry.signal.action
                     /\ item.status = tracked.entry.status
                     /\ item.created_at = tracked.entry.created_at
                     /\ "auto_approve_in_sec" \in DOMAIN item
                     /\ item.auto_approve_in_sec = IF 30 - age > 0 THEN 30 - age ELSE 0
                     /\ item.auto_approve_in_sec \in 0..30
     /\ Tick
          => \A i \in 1..Len(pendingApprovals) :
               LET created_at == pendingApprovals[i].entry.created_at
               IN AutoApproveInSec(created_at)' <= AutoApproveInSec(created_at)]_vars

\* C26: the price upsert is idempotent. Whenever POST /update-market-state has
\* applied a batch, applying the same batch again to the resulting store gives
\* that store again: the same records in the same order with the same value in
\* every field.
C26_UpsertIdempotent ==
  [][\A body \in PriceBodies \cup {NullInPriceBatch} :
       (UpdateMarketState(body) /\ body.isArray)
         => ApplyBatch(market_data', body.market_data).store = market_data']_vars

\* a batch was applied to a store that held XAUUSD from an earlier batch: the
\* record keeps the ask of the full update under the price of the tick
C26_Witness ==
  /\ request = "POST /update-market-state"
  /\ response.status = 200
  /\ clock > 0
  /\ timestamp = <<DateNow>>
  /\ Len(market_data) = 2
  /\ market_data[1].symbol = "EURUSD"
  /\ market_data[2] = [GoldFull EXCEPT !.price = "1890"]

\* C27: symbol keys are unique in the price store. In every reachable state no
\* two records of the store have the same symbol.
C27_UniqueSymbols ==
  \A i, j \in 1..Len(market_data) :
    i # j => market_data[i].symbol # market_data[j].symbol

\* C28: at most one tracked signal per cmd_id. In every reachable state no two
\* entries of the pending set have the same cmd_id and every entry has status
\* PENDING or APPROVED, and the answer of GET /pending-approvals has no two
\* items with the same cmd_id.
C28_OnePendingPerCmdId ==
  /\ \A i, j \in 1..Len(pendingApprovals) :
       i # j => pendingApprovals[i].cmd_id # pendingApprovals[j].cmd_id
  /\ \A i \in 1..Len(pendingApprovals) :
       pendingApprovals[i].entry.status \in {"PENDING", "APPROVED"}
  /\ request = "GET /pending-approvals"
       => \A i, j \in 1..Len(response.body.items) :
            i # j => response.body.items[i].cmd_id # response.body.items[j].cmd_id

\* the listing shows OX_1 once, PENDING, after OX_1 was approved and then
\* submitted again, next to an APPROVED signal under a generated id
C28_Witness ==
  /\ request = "GET /pending-approvals"
  /\ response.body.total = 2
  /\ \E k \in 1..Len(pushed) : pushed[k].cmd_id = "OX_1"
  /\ \E i, j \in 1..2 :
       /\ response.body.items[i].cmd_id = "OX_1"
       /\ response.body.items[i].status = "PENDING"
       /\ response.body.items[j].cmd_id = GeneratedId(Instant(0))
       /\ response.body.items[j].status = "APPROVED"

\* C29: generated command ids are unique. A successful submit without a
\* caller-supplied cmd_id is tracked under an id that was not tracked before
\* it: the pending set grows by one entry and the entries it held are as they
\* were, also when an earlier submit read the same clock value.
C29_GeneratedIdsUnique ==
  [][\A signal \in Signals :
       ((SubmitSignal(signal) \/ EnhancedSubmitSignal(signal))
          /\ response'.status = 200 /\ signal.cmd_id = UNDEFINED)
         => /\ ~MapHas(pendingApprovals, response'.body.cmd_id)
            /\ Len(pendingApprovals') = Len(pendingApprovals) + 1
            /\ SubSeq(pendingApprovals', 1, Len(pendingApprovals)) = pendingApprovals]_vars

\* C30: the price report does not block on external I/O. POST
\* /update-market-state starts no request to the analysis engine and answers
\* the producer in the step that handles it: no forward is in flight after it
\* and its response has been sent.
C30_NoExternalCall ==
  [][\A body \in PriceBodies :
       (UpdateMarketState(body) \/ ForwardUpdateMarketState(body))
         => /\ inflight' = inflight
            /\ response' # NoResponse]_vars

\* C31: the analysis put answers the count of records cached. Whenever POST
\* /market-analysis accepts a batch, symbols_cached in its answer is the number
\* of elements of the batch that were written to the cache, that is of the
\* elements that have a symbol.
C31_CountsCached ==
  [][\A body \in AnalysisBodies :
       (MarketAnalysis(body) /\ response'.status = 200)
         => response'.body.symbols_cached =
              Cardinality({i \in 1..Len(body.market_data) :
                             Truthy(body.market_data[i].symbol)})]_vars

\* the price store and the analysis cache, as one value
JoinedState == [md |-> market_data, cache |-> dashboardCache]

\* the stores after POST /update-market-state has applied the batch
AfterPrices(st, items) ==
  IF variant = "v2_updated"
    THEN [st EXCEPT !.md = V2ApplyBatch(st.md, items).store]
    ELSE [st EXCEPT !.md = ApplyBatch(st.md, items).store]

\* the stores after POST /market-analysis has applied the batch
AfterAnalysis(st, items) ==
  IF variant = "v2_updated"
    THEN [st EXCEPT !.md = V2AnalyseBatch(st.md, items).store]
    ELSE [st EXCEPT !.cache = CacheBatch(st.cache, items, DateNow).cache]

\* the record GET /get-market-state serves for symbol S: <<>> when it serves none
ViewRecordOf(st, S) ==
  LET i == FindIndex(st.md, S)
  IN IF i = 0 THEN <<>>
     ELSE IF variant = "v2_updated" THEN <<st.md[i]>>
     ELSE <<mergeSymbolData(st.md[i], st.cache)>>

\* the symbols the producer and the analysis engine report
ReportedSymbols == {"XAUUSD", "EURUSD"}

\* C32: the arrival order of price and analysis does not matter. From every
\* reachable state, for every price batch, analysis batch and symbol S, the
\* record served for S after the price batch and then the analysis batch is
\* the record served after the analysis batch and then the price batch; so an
\* analysis that arrives before the first price of S is served once the price
\* has arrived.
C32_ArrivalOrderIrrelevant ==
  \A P \in PriceBatches, A \in AnalysisBatches, S \in ReportedSymbols :
    ViewRecordOf(AfterAnalysis(AfterPrices(JoinedState, P), A), S)
      = ViewRecordOf(AfterPrices(AfterAnalysis(JoinedState, A), P), S)

\* C33: queue and tracking agree. In every reachable state each command in the
\* command queue has a cmd_id that is tracked with status APPROVED: a signal
\* retired by a receipt or reset by a later submit is not waiting in the queue.
C33_QueuedAreApproved ==
  \A i \in 1..Len(commandQueue) :
    /\ MapHas(pendingApprovals, commandQueue[i].cmd_id)
    /\ pendingApprovals[MapGet(pendingApprovals, commandQueue[i].cmd_id)].entry.status
         = "APPROVED"

\* C34: the two reports keep to their own store. POST /market-analysis leaves
\* the price fields of every record of the price store as they were, POST
\* /update-market-state leaves every entry of the analysis cache as it was,
\* and neither changes the pending set, the command queue or the receipt log.
C34_ReportsKeepToTheirStore ==
  [][/\ \A body \in AnalysisBodies \cup {NullInAnalysisBatch} :
          (MarketAnalysis(body) \/ V2MarketAnalysis(body))
            => /\ Len(market_data') = Len(market_data)
               /\ \A i \in 1..Len(market_data), F \in PriceFields :
                    market_data'[i][F] = market_data[i][F]
               /\ UNCHANGED <<pendingApprovals, commandQueue, receipts>>
     /\ \A body \in PriceBodies \cup {NullInPriceBatch} :
          (UpdateMarketState(body) \/ V2UpdateMarketState(body))
            => UNCHANGED <<dashboardCache, pendingApprovals, commandQueue, receipts>>]_vars

\* C35: flush changes only the command queue. POST /flush-queue leaves the
\* pending set, with the status of every signal, the receipt log, the price
\* store and the analysis cache as they were; and an approve of a tracked
\* cmd_id handled while no command for it is queued appends a command for it,
\* also when the signal is already APPROVED.
C35_FlushOnlyQueue ==
  [][/\ FlushQueue
          => /\ commandQueue' = <<>>
             /\ UNCHANGED <<pendingApprovals, receipts, market_data, dashboardCache,
                            timestamp>>
     /\ \A cmd_id \in CmdIds, lot \in LotOverrides :
          (/\ ApproveSignal(cmd_id, lot)
           /\ MapHas(pendingApprovals, cmd_id)
           /\ \A k \in 1..Len(commandQueue) : commandQueue[k].cmd_id # cmd_id)
            => /\ Len(commandQueue') = Len(commandQueue) + 1
               /\ commandQueue'[Len(commandQueue')].cmd_id = cmd_id]_vars

\* the queue was flushed while a signal was APPROVED and another PENDING, a
\* receipt was logged, and the price store and the analysis cache held data:
\* the APPROVED signal has no command queued
C35_Witness ==
  /\ request = "POST /flush-queue"
  /\ commandQueue = <<>>
  /\ Len(market_data) > 0
  /\ DOMAIN dashboardCache # {}
  /\ receipts # <<>>
  /\ Len(pendingApprovals) = 2
  /\ pendingApprovals[1].entry.status = "APPROVED"
  /\ pendingApprovals[2].entry.status = "PENDING"

\* C36: draining. While the execution agent keeps polling and the queue is not
\* flushed, the k-th command pushed by an approve is eventually the k-th
\* command returned by a poll; and in a behaviour in which the approves stop
\* pushing, the queue eventually is empty and stays empty, and every poll of
\* the empty queue is answered with NONE.
C36_Draining ==
  /\ \A k \in 1..MaxPushed :
       (Len(pushed) >= k) ~> (Len(delivered) >= k /\ delivered[k] = pushed[k])
  /\ <>[][Len(pushed') = Len(pushed)]_vars => <>[](commandQueue = <<>>)
  /\ [][(LastSignal /\ commandQueue = <<>>) => response'.body = NoneSentinel]_vars

\* the two commands pushed have both been returned, and the poll after them
\* got NONE
C36_Witness ==
  /\ request = "GET /last-signal"
  /\ response.body = NoneSentinel
  /\ Len(pushed) = 2
  /\ delivered = pushed
  /\ delivered[1] # delivered[2]
  /\ commandQueue = <<>>

\* the last element of the batch that is for symbol S
LastFor(items, S) ==
  items[CHOOSE i \in 1..Len(items) :
          /\ items[i].symbol = S
          /\ \A j \in (i + 1)..Len(items) : items[j].symbol # S]

\* C37: the forwarding relay stores before it forwards, and a failed forward
\* undoes nothing. When POST /update-market-state suspends on its forward the
\* store holds, for every symbol of the batch, the batch's last element for
\* it; when the forward settles, with 200, another status or a rejection, the
\* store and its timestamp are as they were and the producer is answered
\* success; and GET /get-market-state returns the records of the store.
C37_StoreBeforeForward ==
  [][/\ \A body \in PriceBodies :
          (ForwardUpdateMarketState(body) /\ body.isArray)
            => /\ inflight' = Append(inflight, ForwardedBody(body.market_data))
               /\ \A k \in 1..Len(body.market_data) :
                    LET S == body.market_data[k].symbol
                    IN Truthy(S)
                         => /\ FindIndex(symbols', S) # 0
                            /\ symbols'[FindIndex(symbols', S)]
                                 = LastFor(body.market_data, S)
     /\ \A i \in 1..MaxInflight, outcome \in ForwardOutcomes :
          ForwardSettled(i, outcome)
            => /\ UNCHANGED <<symbols, timestamp>>
               /\ response'.status = 200
               /\ response'.body.success = TRUE
     /\ ForwardGetMarketState => response'.body.market_data = symbols]_vars

\* the forward of a two-symbol batch has settled: the producer was answered
\* success and the store holds both records of the batch
C37_Witness ==
  /\ request = "POST /update-market-state"
  /\ inflight = <<>>
  /\ "success" \in DOMAIN response.body
  /\ response.body.symbols_stored = 2
  /\ symbols = <<GoldFull, EuroFull>>
  /\ timestamp # <<>>

====
